---- MODULE Spec2Model ----
(***************************************************************************)
(* State-machine model of the observer subsystem under                     *)
(* src/scripts/automation/observers: the executive alert system, the       *)
(* trend analyzer's anomaly detection, the pattern store (pattern_history  *)
(* and weekly_snapshots tables), the prediction store and the executive    *)
(* synthesizer that drives them.                                           *)
(*                                                                         *)
(* Percentages are integers (percent points), confidences are tenths.      *)
(* Database tables are sequences of rows in insertion order, so that a     *)
(* duplicated row would be visible.                                        *)
(***************************************************************************)
EXTENDS Integers, Sequences, FiniteSets, TLC

VARIABLES
    \* ---- AlertSystem (alert_system.py) ----
    alert_system,        \* the AlertSystem object's configuration attributes
    alert_input,         \* arguments of the generate_alerts call
    generated_alerts,    \* the local list `alerts` before the cap is applied
    returned_alerts,     \* the list generate_alerts returns
    alerts_pc,           \* "idle" before the call, "returned" after it
    \* ---- TrendAnalyzer.detect_anomalies (trend_analyzer.py) ----
    previous_snapshots,  \* history handed to detect_anomalies
    current_snapshot,    \* the snapshot of the current week
    anomalies,           \* list detect_anomalies returns
    trend_pc,            \* "idle" before the call, "returned" after it
    \* ---- PatternStore (pattern_store.py) ----
    db_exists,           \* the database file exists
    storage,             \* "ok" or "failing": whether sqlite operations succeed
    pattern_history,     \* rows of table pattern_history
    weekly_snapshots,    \* rows of table weekly_snapshots
    store_call,          \* the last PatternStore call and its return value
    \* ---- ExecutiveSynthesizer (executive_synthesizer.py) ----
    enabled,             \* executive_intelligence.enabled
    failing_tasks,       \* analyses that raise when they are run
    week,                \* the current calendar week
    synth,               \* outcome of the last generate_executive_report call
    \* ---- PredictionStore (prediction_store.py) ----
    prediction_history,  \* rows of table prediction_history
    prediction_feedback, \* rows of table prediction_feedback
    now,                 \* wall clock, in day parts
    ticks,               \* number of clock advances so far
    pred_call,           \* the last PredictionStore call and what it returned
    \* ---- PatternAnalyzer (pattern_analyzer.py) ----
    events_db,           \* the results of the analyzer's queries on events.db
    analyzer,            \* the PatternAnalyzer object's thresholds
    failing_queries,     \* the analyses whose database access raises
    sequences_found,     \* the list analyze_command_sequences returns
    analysis_report,     \* the PatternReport analyze_all_patterns returns
    analysis_pc,         \* "idle" before a call, then the call that was made
    \* ---- PatternPredictor (predictor.py) ----
    predictor_db,        \* the tables of patterns.db the predictor reads
    prediction_context,  \* the PredictionContext handed to predict_next_actions
    predict_args,        \* max_suggestions and min_confidence of the call
    current_hour,        \* the hour of the wall clock
    predicted,           \* the list predict_next_actions returns
    predictor_pc,        \* "idle" before the call, "returned" after it
    \* ---- GoalAwareRecommender (goal_recommender.py) ----
    recommender,         \* min_alignment_score (tenths) and max_correlations_per_okr
    okrs,                \* the objectives load_okrs returns
    goal_pattern_report, \* the PatternReport handed to correlate_patterns_to_goals
    goal_correlations,   \* the list correlate_patterns_to_goals returns
    recommender_pc,      \* "idle" before the call, "returned" after it
    \* ---- pattern_models.py helper functions ----
    jaccard_sets,        \* the two sets handed to calculate_jaccard_similarity
    jaccard_similarity,  \* <<>> before the call, then the value it returned
    \* ---- report types (executive_models.py, prediction_models.py, pattern_models.py) ----
    report_value,        \* a report object
    round_trip,          \* <<>> before, then the outcome of from_dict(to_dict())
    \* ---- FileClustersObserver (file_clusters_observer.py) ----
    cluster_observers,   \* per session: the observer's _current_cluster, _last_edit_time
    wall_ticks,          \* datetime.now(), in ticks
    file_cluster_events, \* the file edits recorded, in the order of recording
    session_clusters,    \* the list analyze_file_relationships returned
    clusters_pc,         \* "observing" while edits are captured, then "analyzed"
    \* ---- PatternStore: executive_alerts (pattern_store.py) ----
    executive_alerts,    \* the rows of table executive_alerts, oldest first
    active_alerts,       \* the list the last get_active_alerts call returned
    alert_store_call,    \* the last call: its method and arguments
    \* ---- PatternStore: concurrent store_patterns calls (pattern_store.py) ----
    store_db,            \* the database file: its tables, the committed rows, the write lock
    store_initialized,   \* PatternStore._initialized
    store_tasks,         \* per task: where its store_patterns call stands, and its result
    \* ---- ObserverManager (observer_manager.py, event_orchestrator.py) ----
    manager_orchestrator, \* ObserverManager._orchestrator: None or the orchestrator
    events_db_exists,    \* the events database file exists
    enabled_observers,   \* the observers the configuration enables
    eager_annotations,   \* the interpreter evaluates annotations when a def is executed
    manager_tasks        \* per task: where it stands, and what get_observer returned

alertVars == <<alert_system, alert_input, generated_alerts, returned_alerts, alerts_pc>>
trendVars == <<previous_snapshots, current_snapshot, anomalies, trend_pc>>
patternVars == <<pattern_history>>
storeVars == <<db_exists, storage, weekly_snapshots, store_call>>
synthVars == <<enabled, failing_tasks, week, synth>>
predVars == <<prediction_history, prediction_feedback, now, ticks, pred_call>>
analyzerVars == <<events_db, analyzer, failing_queries, sequences_found,
                  analysis_report, analysis_pc>>
\* The variables of the alert system, the trend analyzer, the stores and the
\* synthesizer, and those of the analysis components.
coreVars == <<alertVars, trendVars, patternVars, storeVars, synthVars, predVars>>
predictorVars == <<predictor_db, prediction_context, predict_args, current_hour,
                   predicted, predictor_pc>>
recommenderVars == <<recommender, okrs, goal_pattern_report, goal_correlations,
                     recommender_pc>>
helperVars == <<jaccard_sets, jaccard_similarity>>
reportVars == <<report_value, round_trip>>
clusterVars == <<cluster_observers, wall_ticks, file_cluster_events, session_clusters,
                 clusters_pc>>
\* The variables of the observers at work.
alertStoreVars == <<executive_alerts, active_alerts, alert_store_call>>
storeTaskVars == <<store_db, store_initialized, store_tasks>>
managerVars ==
    <<manager_orchestrator, events_db_exists, enabled_observers, eager_annotations,
      manager_tasks>>
runtimeVars == <<clusterVars, alertStoreVars, storeTaskVars, managerVars>>
libVars == <<analyzerVars, predictorVars, recommenderVars, helperVars, reportVars,
             runtimeVars>>
vars == <<coreVars, libVars>>

\* All sequences over S of length at most n.
SeqsUpTo(S, n) == UNION {[1..k -> S] : k \in 0..n}

\* The set of elements of a sequence.
Range(s) == {s[i] : i \in 1..Len(s)}

(***************************************************************************)
(* AlertSystem                                                             *)
(***************************************************************************)

\* Bounds on the inputs of generate_alerts.
MaxTrends == 2
MaxAnomalies == 1
MaxSequences == 1
MaxCap == 2

\* The wall clock counts ticks; a second has TicksPerSecond of them.
TicksPerSecond == 2

\* Class constants of AlertSystem, in percent points and tenths.
PRODUCTIVITY_DROP_THRESHOLD == 15
ALIGNMENT_DROP_THRESHOLD == 20
NEW_PATTERN_CONFIDENCE_THRESHOLD == 7
CRITICAL_DROP_THRESHOLD == 40
WARNING_DROP_THRESHOLD == 20
DEFAULT_MAX_ACTIVE_ALERTS == 10
OPPORTUNITY_CHANGE_PERCENT == 20
MIN_PATTERN_OCCURRENCES == 3
MAX_PATTERN_OCCURRENCES == 10

\* TrendMetric values handed to the alert system: metric name and change in
\* percent points, on both sides of every severity threshold.
TrendSamples ==
    {[metric_name |-> "productivity_score", change_percent |-> c] :
        c \in {-45, -40, -39, -20, -19, 25}}
    \cup {[metric_name |-> "strategic_alignment", change_percent |-> c] :
        c \in {-25, -15}}

\* Anomaly dictionaries as detect_anomalies produces them.
AnomalySamples ==
    {[metric_name |-> "success_rate", severity |-> s, z_score |-> z] :
        s \in {"critical"}, z \in {4}}
    \cup {[metric_name |-> "success_rate", severity |-> s, z_score |-> z] :
        s \in {"warning"}, z \in {-2}}

\* CommandSequence values: occurrence count and confidence in tenths.
SequenceSamples ==
    {[occurrence_count |-> 8, confidence |-> 8],
     [occurrence_count |-> 12, confidence |-> 10]}

\* The pattern_report argument: None, or a report with its command sequences.
PatternReportInputs ==
    {[is_none |-> TRUE, command_sequences |-> <<>>]}
    \cup {[is_none |-> FALSE, command_sequences |-> cs] :
            cs \in SeqsUpTo(SequenceSamples, MaxSequences)}

AlertInputs ==
    [trend_metrics : SeqsUpTo(TrendSamples, MaxTrends),
     anomalies : SeqsUpTo(AnomalySamples, MaxAnomalies),
     pattern_report : PatternReportInputs]

\* The "alerts" section of the configuration handed to AlertSystem: a
\* dictionary in which each key may be absent, thresholds in percent points.
AlertConfigSamples ==
    LET none == [k \in {} |-> 0] IN
    {none,
     [k \in {"productivity_drop_threshold"} |-> 30],
     [k \in {"alignment_drop_threshold"} |-> 10]}
    \cup {[k \in {"max_active_alerts"} |-> cap] : cap \in 1..MaxCap}

\* dict.get(key, default)
get(dict, key, default) == IF key \in DOMAIN dict THEN dict[key] ELSE default

\* AlertSystem.__init__: thresholds and cap read from the configuration.
alert_system_init(alert_config) ==
    [productivity_threshold |->
        get(alert_config, "productivity_drop_threshold", PRODUCTIVITY_DROP_THRESHOLD),
     alignment_threshold |->
        get(alert_config, "alignment_drop_threshold", ALIGNMENT_DROP_THRESHOLD),
     max_active_alerts |->
        get(alert_config, "max_active_alerts", DEFAULT_MAX_ACTIVE_ALERTS)]

\* The AlertSystem objects the configurations construct.
AlertSystemConfigs == {alert_system_init(c) : c \in AlertConfigSamples}

\* An ExecutiveAlert: obj is the object's identity (its position in the
\* generated list), evidence the number kept in data_evidence; alert_id is
\* filled in when the alert is created.
ExecutiveAlert(severity, category, evidence) ==
    [obj |-> 0, alert_id |-> 0, severity |-> severity, category |-> category,
     evidence |-> evidence]

\* _calculate_alert_severity
calculate_alert_severity(cfg, change_percent, category) ==
    IF change_percent < 0
    THEN LET drop_magnitude == -change_percent IN
         IF category = "productivity"
         THEN IF drop_magnitude >= CRITICAL_DROP_THRESHOLD THEN "critical"
              ELSE IF drop_magnitude >= WARNING_DROP_THRESHOLD THEN "warning"
              ELSE "info"
         ELSE IF category = "alignment"
         THEN IF drop_magnitude >= WARNING_DROP_THRESHOLD THEN "critical"
              ELSE IF drop_magnitude >= cfg.alignment_threshold THEN "warning"
              ELSE "info"
         ELSE "info"
    ELSE "info"

\* _check_productivity_alerts
check_productivity_alerts(cfg, trend_metrics) ==
    LET drops == SelectSeq(trend_metrics,
            LAMBDA m : /\ m.metric_name = "productivity_score"
                       /\ m.change_percent < 0
                       /\ calculate_alert_severity(cfg, m.change_percent, "productivity")
                            \in {"critical", "warning"})
    IN [i \in 1..Len(drops) |->
            ExecutiveAlert(
                calculate_alert_severity(cfg, drops[i].change_percent, "productivity"),
                "productivity", drops[i].change_percent)]

\* _check_alignment_alerts
check_alignment_alerts(cfg, trend_metrics) ==
    LET drops == SelectSeq(trend_metrics,
            LAMBDA m : /\ m.metric_name = "strategic_alignment"
                       /\ m.change_percent < -cfg.alignment_threshold)
    IN [i \in 1..Len(drops) |->
            ExecutiveAlert(
                calculate_alert_severity(cfg, drops[i].change_percent, "alignment"),
                "alignment", drops[i].change_percent)]

\* _check_pattern_alerts
check_pattern_alerts(pattern_report) ==
    LET emerging == SelectSeq(pattern_report.command_sequences,
            LAMBDA q : /\ q.confidence >= NEW_PATTERN_CONFIDENCE_THRESHOLD
                       /\ q.occurrence_count >= MIN_PATTERN_OCCURRENCES
                       /\ q.occurrence_count <= MAX_PATTERN_OCCURRENCES)
    IN [i \in 1..Len(emerging) |->
            ExecutiveAlert("info", "pattern_change", emerging[i].occurrence_count)]

\* _check_opportunity_alerts
check_opportunity_alerts(trend_metrics) ==
    LET gains == SelectSeq(trend_metrics,
            LAMBDA m : m.change_percent > OPPORTUNITY_CHANGE_PERCENT)
    IN [i \in 1..Len(gains) |->
            ExecutiveAlert("info", "opportunity", gains[i].change_percent)]

\* _get_anomaly_suggestions calls str.replace, which requires the arguments
\* old and new, with the one argument "_ " "" (two adjacent string literals,
\* which Python joins into one string).
StrReplaceRequired == <<"old", "new">>
ReplaceCallArguments == <<"_ ">>

\* A call binds when it supplies at least the required positional arguments;
\* otherwise Python raises TypeError.
PositionalBinds(arguments, required) == Len(arguments) >= Len(required)

\* _get_anomaly_suggestions raises TypeError for every anomaly.
get_anomaly_suggestions_raises ==
    ~PositionalBinds(ReplaceCallArguments, StrReplaceRequired)

\* _create_anomaly_alerts raises while it builds the alert of the first
\* anomaly, before any anomaly alert exists.
create_anomaly_alerts_raises(anoms) ==
    anoms # <<>> /\ get_anomaly_suggestions_raises

\* _create_anomaly_alerts
create_anomaly_alerts(anoms) ==
    [i \in 1..Len(anoms) |->
        ExecutiveAlert(IF anoms[i].severity = "critical" THEN "critical" ELSE "warning",
                       "anomaly", anoms[i].z_score)]

\* The key function of the sort in generate_alerts.
severity_order(severity) ==
    CASE severity = "critical" -> 0
      [] severity = "warning" -> 1
      [] severity = "info" -> 2
      [] OTHER -> 3

\* An unstable sort: alerts of equal rank come out in reverse order.
sort_by_severity_unstable(alerts) ==
    LET Reverse(q) == [i \in 1..Len(q) |-> q[Len(q) + 1 - i]]
        rank(k) == Reverse(SelectSeq(alerts, LAMBDA a : severity_order(a.severity) = k))
    IN rank(0) \o rank(1) \o rank(2) \o rank(3)

\* alerts.sort(key=...): Python's sort is stable, so the result is the
\* concatenation of the alerts of each rank in their original order.
sort_by_severity(alerts) ==
    LET rank(k) == SelectSeq(alerts, LAMBDA a : severity_order(a.severity) = k)
    IN rank(0) \o rank(1) \o rank(2) \o rank(3)

\* generate_alerts, the part that collects the alerts of the five checks;
\* when _create_anomaly_alerts raises, the alerts collected until then.
collect_alerts(cfg, input) ==
    LET alerts ==
            check_productivity_alerts(cfg, input.trend_metrics)
            \o check_alignment_alerts(cfg, input.trend_metrics)
            \o (IF input.pattern_report.is_none THEN <<>>
                ELSE check_pattern_alerts(input.pattern_report))
            \o check_opportunity_alerts(input.trend_metrics)
            \o (IF create_anomaly_alerts_raises(input.anomalies) THEN <<>>
                ELSE create_anomaly_alerts(input.anomalies))
    IN [i \in 1..Len(alerts) |-> [alerts[i] EXCEPT !.obj = i]]

\* generate_alert_id: the wall clock formatted with strftime("%Y%m%d_%H%M%S"),
\* which keeps the second and drops the fraction.
generate_alert_id(clock) == clock \div TicksPerSecond

\* The alert ids of one generate_alerts call that starts at tick `start` and
\* during which the clock advances by one tick before the last `late` alerts
\* are created.
stamp_alert_ids(alerts, start, late) ==
    [i \in 1..Len(alerts) |->
        [alerts[i] EXCEPT !.alert_id =
            generate_alert_id(start + (IF i > Len(alerts) - late THEN 1 ELSE 0))]]

\* generate_alerts, the part that limits the list to max_active_alerts.
limit_alerts(cfg, alerts) ==
    IF Len(alerts) > cfg.max_active_alerts
    THEN SubSeq(sort_by_severity(alerts), 1, cfg.max_active_alerts)
    ELSE alerts

InitAlerts ==
    /\ alert_system \in AlertSystemConfigs
    /\ alert_input \in AlertInputs
    /\ generated_alerts = <<>>
    /\ returned_alerts = <<>>
    /\ alerts_pc = "idle"

\* AlertSystem.generate_alerts(trend_metrics, anomalies, pattern_report):
\* the call returns the limited list, or ends with the exception that
\* _create_anomaly_alerts raises.
GenerateAlerts ==
    /\ alerts_pc = "idle"
    /\ \E start \in 0..(TicksPerSecond - 1),
          late \in 0..Len(collect_alerts(alert_system, alert_input)) :
          LET alerts == stamp_alert_ids(collect_alerts(alert_system, alert_input),
                                        start, late)
          IN /\ generated_alerts' = alerts
             /\ IF create_anomaly_alerts_raises(alert_input.anomalies)
                THEN /\ returned_alerts' = <<>>
                     /\ alerts_pc' = "raised"
                ELSE /\ returned_alerts' = limit_alerts(alert_system, alerts)
                     /\ alerts_pc' = "returned"
    /\ UNCHANGED <<alert_system, alert_input>>
    /\ UNCHANGED <<trendVars, patternVars, storeVars, synthVars, predVars>>
    /\ UNCHANGED libVars

(***************************************************************************)
(* TrendAnalyzer.detect_anomalies                                          *)
(***************************************************************************)

\* Bound on the number of historical snapshots handed to detect_anomalies.
MaxHistory == 4

\* Default of the threshold_stddev parameter.
THRESHOLD_STDDEV_DEFAULT == 2

\* The names in metrics_to_check, in the order they are checked.
MetricsToCheck ==
    <<"productivity_score", "strategic_alignment", "pattern_diversity",
      "success_rate", "active_hours">>

\* A WeeklySnapshot whose five metrics are v, except active_hours = h.
Snapshot(v, h) ==
    [productivity_score |-> v, strategic_alignment_avg |-> v,
     pattern_diversity |-> v, success_signal_rate |-> v, active_hours |-> h]

\* Historical snapshots: constant metrics, varying metrics, a missing value.
HistorySamples == {Snapshot(10, 10), Snapshot(14, 0), Snapshot(12, 10)}

\* Snapshots of the current week: far above, slightly above, inside and
\* below the historical range.
CurrentSamples == {Snapshot(100, 100), Snapshot(18, 10), Snapshot(13, 1), Snapshot(2, 1)}

\* The attribute of a snapshot that metrics_to_check pairs with a name.
metric_value(snapshot, metric_name) ==
    CASE metric_name = "productivity_score" -> snapshot.productivity_score
      [] metric_name = "strategic_alignment" -> snapshot.strategic_alignment_avg
      [] metric_name = "pattern_diversity" -> snapshot.pattern_diversity
      [] metric_name = "success_rate" -> snapshot.success_signal_rate
      [] OTHER -> snapshot.active_hours

\* The historical baseline of a metric: the values that are > 0.
historical_values(snapshots, metric_name) ==
    LET valid == SelectSeq(snapshots, LAMBDA s : metric_value(s, metric_name) > 0)
    IN [i \in 1..Len(valid) |-> metric_value(valid[i], metric_name)]

RECURSIVE SumSeq(_)
SumSeq(s) == IF s = <<>> THEN 0 ELSE Head(s) + SumSeq(Tail(s))

\* statistics.mean, as the exact fraction num/den.
mean(values) == [num |-> SumSeq(values), den |-> Len(values)]

\* statistics.stdev squared (the sample variance), as the exact fraction
\* num/den; stdev raises StatisticsError for fewer than two values, and the
\* handler then substitutes 0.1, whose square is 1/100.
hist_stddev_squared(values) ==
    LET n == Len(values)
        squares == [i \in 1..n |-> values[i] * values[i]]
    IN IF n < 2
       THEN [num |-> 1, den |-> 100]
       ELSE [num |-> n * SumSeq(squares) - SumSeq(values) * SumSeq(values),
             den |-> n * (n - 1)]

\* calculate_z_score(value, mean, std_dev): the sign of the z-score and its
\* square as the exact fraction sq_num/sq_den; 0.0 when std_dev == 0.
calculate_z_score(value, m, sd2) ==
    IF sd2.num = 0
    THEN [sign |-> 0, sq_num |-> 0, sq_den |-> 1]
    ELSE LET dev == value * m.den - m.num IN
         [sign |-> IF dev > 0 THEN 1 ELSE IF dev < 0 THEN -1 ELSE 0,
          sq_num |-> dev * dev * sd2.den,
          sq_den |-> m.den * m.den * sd2.num]

\* abs(z) >= (factor_num/factor_den) * threshold, for a positive threshold.
abs_at_least(z, threshold, factor_num, factor_den) ==
    z.sq_num * factor_den * factor_den
        >= factor_num * factor_num * threshold * threshold * z.sq_den

\* The z-score detect_anomalies computes for one metric.
metric_z_score(previous, current, metric_name) ==
    LET values == historical_values(previous, metric_name) IN
    calculate_z_score(metric_value(current, metric_name), mean(values),
                      hist_stddev_squared(values))

\* detect_anomalies(current_report, previous_snapshots, threshold_stddev)
detect_anomalies(previous, current, threshold_stddev) ==
    IF Len(previous) < 2
    THEN <<>>
    ELSE LET anomalous == SelectSeq(MetricsToCheck,
                 LAMBDA name : /\ Len(historical_values(previous, name)) >= 2
                               /\ abs_at_least(metric_z_score(previous, current, name),
                                               threshold_stddev, 1, 1))
         IN [i \in 1..Len(anomalous) |->
                LET z == metric_z_score(previous, current, anomalous[i]) IN
                [metric_name |-> anomalous[i],
                 current_value |-> metric_value(current, anomalous[i]),
                 z_score |-> z,
                 anomaly_type |-> IF z.sign > 0 THEN "high" ELSE "low",
                 severity |-> IF abs_at_least(z, threshold_stddev, 3, 2)
                              THEN "critical" ELSE "warning"]]

InitTrend ==
    /\ previous_snapshots \in SeqsUpTo(HistorySamples, MaxHistory)
    /\ current_snapshot \in CurrentSamples
    /\ anomalies = <<>>
    /\ trend_pc = "idle"

\* TrendAnalyzer.detect_anomalies with the default threshold.
DetectAnomalies ==
    /\ trend_pc = "idle"
    /\ anomalies' = detect_anomalies(previous_snapshots, current_snapshot,
                                     THRESHOLD_STDDEV_DEFAULT)
    /\ trend_pc' = "returned"
    /\ UNCHANGED <<previous_snapshots, current_snapshot>>
    /\ UNCHANGED <<alertVars, patternVars, storeVars, synthVars, predVars>>
    /\ UNCHANGED libVars

(***************************************************************************)
(* PredictionStore                                                         *)
(***************************************************************************)

\* The wall clock counts day parts; a day has DayParts of them.
DayParts == 2

\* Bounds on the clock advances and on the rows of prediction_feedback.
MaxTicks == 2
MaxFeedback == 2

\* Bound on the list handed to save_predictions_batch.
MaxBatch == 2

\* Default of the retention_days parameter of cleanup_old_predictions.
RetentionDays == 30

SuggestionIds == {"s1", "s2"}

\* UserAction values a feedback can carry; NoAction is Python's None and
\* SQL's NULL.
NoAction == "null"
UserActions == {"accepted", "rejected"}

\* timedelta(days=retention_days), in day parts.
RetentionSpan == RetentionDays * DayParts

\* The calendar day a clock value falls on.
DayOf(t) == t \div DayParts

\* The suggestion_id column of a table.
SuggestionIdsOf(rows) == {rows[i].suggestion_id : i \in 1..Len(rows)}

\* SQL `created_at < ?` in cleanup_old_predictions.  created_at is filled by
\* CURRENT_TIMESTAMP ("YYYY-MM-DD HH:MM:SS") and the parameter is
\* datetime.isoformat() ("YYYY-MM-DDTHH:MM:SS.ffffff"), compared as text: the
\* dates decide, and on equal dates " " sorts before "T" whatever the times.
CreatedBeforeCutoff(created_at, cutoff) == DayOf(created_at) <= DayOf(cutoff)

\* A PredictionStore call: the method, the boolean it returned (FALSE for a
\* method that returns a count) and the count it returned (0 for a method
\* that returns a boolean).
PredCall(op, ok, deleted) == [op |-> op, ok |-> ok, deleted |-> deleted]

InitPredictions ==
    /\ prediction_history = <<>>
    /\ prediction_feedback = <<>>
    /\ now = 1
    /\ ticks = 0
    /\ pred_call = PredCall("none", FALSE, 0)

\* PredictionStore.save_prediction: INSERT OR REPLACE deletes the row with
\* the same suggestion_id and inserts a new one, whose user_action is NULL
\* and whose created_at is CURRENT_TIMESTAMP.
SavePrediction(sid) ==
    /\ prediction_history' =
           Append(SelectSeq(prediction_history, LAMBDA r : r.suggestion_id # sid),
                  [suggestion_id |-> sid, user_action |-> NoAction, created_at |-> now])
    /\ pred_call' = PredCall("save_prediction", TRUE, 0)
    /\ UNCHANGED <<prediction_feedback, now, ticks>>
    /\ UNCHANGED <<alertVars, trendVars, patternVars, storeVars, synthVars>>
    /\ UNCHANGED libVars

\* The INSERT OR REPLACE of save_prediction and save_predictions_batch on
\* the rows of prediction_history.
RECURSIVE replaced_predictions(_, _, _)
replaced_predictions(rows, sids, at) ==
    IF sids = <<>> THEN rows
    ELSE replaced_predictions(
             Append(SelectSeq(rows, LAMBDA r : r.suggestion_id # Head(sids)),
                    [suggestion_id |-> Head(sids), user_action |-> NoAction,
                     created_at |-> at]),
             Tail(sids), at)

\* PredictionStore.save_predictions_batch: one INSERT OR REPLACE for every
\* suggestion of the list, and the number of them returned.
SavePredictionsBatch(sids) ==
    /\ prediction_history' = replaced_predictions(prediction_history, sids, now)
    /\ pred_call' = PredCall("save_predictions_batch", FALSE, Len(sids))
    /\ UNCHANGED <<prediction_feedback, now, ticks>>
    /\ UNCHANGED <<alertVars, trendVars, patternVars, storeVars, synthVars>>
    /\ UNCHANGED libVars

\* PredictionStore.record_feedback: the foreign key of prediction_feedback
\* rejects feedback for an unknown suggestion, and the transaction with the
\* UPDATE is then never committed.
RecordFeedback(sid, user_action) ==
    /\ Len(prediction_feedback) < MaxFeedback
    /\ IF sid \in SuggestionIdsOf(prediction_history)
       THEN /\ prediction_history' =
                   [i \in 1..Len(prediction_history) |->
                       IF user_action # NoAction
                          /\ prediction_history[i].suggestion_id = sid
                       THEN [prediction_history[i] EXCEPT !.user_action = user_action]
                       ELSE prediction_history[i]]
            /\ prediction_feedback' = Append(prediction_feedback, [suggestion_id |-> sid])
            /\ pred_call' = PredCall("record_feedback", TRUE, 0)
       ELSE /\ pred_call' = PredCall("record_feedback", FALSE, 0)
            /\ UNCHANGED <<prediction_history, prediction_feedback>>
    /\ UNCHANGED <<now, ticks>>
    /\ UNCHANGED <<alertVars, trendVars, patternVars, storeVars, synthVars>>
    /\ UNCHANGED libVars

\* The rows the DELETE of cleanup_old_predictions selects.
CleanupSelects(row, retention_days) ==
    /\ CreatedBeforeCutoff(row.created_at, now - retention_days * DayParts)
    /\ row.user_action = NoAction

\* PredictionStore.cleanup_old_predictions(retention_days): the DELETE fails
\* as a whole with a FOREIGN KEY error when a selected row is referenced by
\* prediction_feedback; the handler then returns 0 and nothing is committed.
cleanup_old_predictions(retention_days) ==
    LET selected == {i \in 1..Len(prediction_history) :
                        CleanupSelects(prediction_history[i], retention_days)}
        referenced == {i \in selected :
                        prediction_history[i].suggestion_id
                            \in SuggestionIdsOf(prediction_feedback)}
        kept == SelectSeq(prediction_history,
                          LAMBDA r : ~CleanupSelects(r, retention_days))
    IN /\ IF referenced # {}
          THEN /\ pred_call' = PredCall("cleanup_old_predictions", FALSE, 0)
               /\ UNCHANGED <<prediction_history, prediction_feedback>>
          ELSE /\ pred_call' = PredCall("cleanup_old_predictions", FALSE,
                                        Cardinality(selected))
               /\ prediction_history' = kept
               /\ prediction_feedback' =
                      SelectSeq(prediction_feedback,
                                LAMBDA f : f.suggestion_id \in SuggestionIdsOf(kept))
       /\ UNCHANGED <<now, ticks>>
       /\ UNCHANGED <<alertVars, trendVars, patternVars, storeVars, synthVars>>
       /\ UNCHANGED libVars

CleanupOldPredictions == cleanup_old_predictions(RetentionDays)

\* Time passes: a day part, or one day part less than the retention span.
Tick(d) ==
    /\ ticks < MaxTicks
    /\ now' = now + d
    /\ ticks' = ticks + 1
    /\ UNCHANGED <<prediction_history, prediction_feedback, pred_call>>
    /\ UNCHANGED <<alertVars, trendVars, patternVars, storeVars, synthVars>>
    /\ UNCHANGED libVars

(***************************************************************************)
(* PatternStore: pattern_history                                           *)
(***************************************************************************)

\* Bound on occurrence_count: store_patterns is not called once a count
\* could pass it.
MaxCount == 3

\* str.join with the arrow separator of the pattern keys (written "->").
RECURSIVE Join(_)
Join(parts) ==
    IF parts = <<>> THEN ""
    ELSE IF Len(parts) = 1 THEN Head(parts)
    ELSE Head(parts) \o "->" \o Join(Tail(parts))

\* A file path, as its directory and its stem.
File(dir, stem) == [dir |-> dir, stem |-> stem]

\* analyze_file_relationships names a cluster after the stem of its first
\* file.
FileCluster(files) == [cluster_id |-> files[1].stem \o "_cluster", files |-> files]

CommandSequence(sequence) == [sequence |-> sequence]

SuccessCorrelation(activity_pattern, outcome_type) ==
    [activity_pattern |-> activity_pattern, outcome_type |-> outcome_type]

PatternReport(command_sequences, file_clusters, success_correlations) ==
    [command_sequences |-> command_sequences,
     file_clusters |-> file_clusters,
     success_correlations |-> success_correlations]

SeqToday == CommandSequence(<<"/today", "/commit">>)
ClusterSrc == FileCluster(<<File("src", "main"), File("src", "util")>>)
ClusterTests == FileCluster(<<File("tests", "main"), File("tests", "conftest")>>)
CorrToday == SuccessCorrelation("/today", "git_commit")

\* Pattern reports handed to store_patterns: one pattern of each type, a
\* single pattern, two clusters whose first files share a stem, the same
\* correlation found before two success signals, and no pattern at all.
ReportSamples ==
    {PatternReport(<<SeqToday>>, <<ClusterSrc>>, <<CorrToday>>),
     PatternReport(<<SeqToday>>, <<>>, <<>>),
     PatternReport(<<>>, <<ClusterSrc, ClusterTests>>, <<>>),
     PatternReport(<<>>, <<>>, <<CorrToday, CorrToday>>),
     PatternReport(<<>>, <<>>, <<>>)}

\* The (pattern_type, pattern_key) pairs store_patterns upserts for a
\* report, in the order of its three loops.
upsert_calls(pattern_report) ==
    [i \in 1..Len(pattern_report.command_sequences) |->
        [pattern_type |-> "command_sequence",
         pattern_key |-> Join(pattern_report.command_sequences[i].sequence)]]
    \o [i \in 1..Len(pattern_report.file_clusters) |->
        [pattern_type |-> "file_cluster",
         pattern_key |-> pattern_report.file_clusters[i].cluster_id]]
    \o [i \in 1..Len(pattern_report.success_correlations) |->
        [pattern_type |-> "success_correlation",
         pattern_key |-> Join(<<pattern_report.success_correlations[i].activity_pattern,
                                pattern_report.success_correlations[i].outcome_type>>)]]

\* An upsert that never looks for the key and always inserts.
upsert_pattern_insert_only(rows, pattern_type, pattern_key) ==
    Append(rows, [pattern_type |-> pattern_type, pattern_key |-> pattern_key,
                  occurrence_count |-> 1])

\* _upsert_pattern: UPDATE ... WHERE pattern_key = ?, and an INSERT with
\* occurrence_count 1 when the UPDATE touched no row.
upsert_pattern(rows, pattern_type, pattern_key) ==
    LET rowcount == Cardinality({i \in 1..Len(rows) : rows[i].pattern_key = pattern_key})
    IN IF rowcount = 0
       THEN Append(rows, [pattern_type |-> pattern_type, pattern_key |-> pattern_key,
                          occurrence_count |-> 1])
       ELSE [i \in 1..Len(rows) |->
                IF rows[i].pattern_key = pattern_key
                THEN [rows[i] EXCEPT !.occurrence_count = @ + 1]
                ELSE rows[i]]

\* The loops of store_patterns: the upserts applied one after the other.
RECURSIVE upsert_all(_, _)
upsert_all(rows, calls) ==
    IF calls = <<>> THEN rows
    ELSE upsert_all(upsert_pattern(rows, Head(calls).pattern_type, Head(calls).pattern_key),
                    Tail(calls))

\* The rows of a table that carry a pattern key.
RowsOfKey(rows, pattern_key) == {i \in 1..Len(rows) : rows[i].pattern_key = pattern_key}

\* The occurrence_count stored for a key, 0 when the key has no row.
CountOfKey(rows, pattern_key) ==
    IF RowsOfKey(rows, pattern_key) = {} THEN 0
    ELSE rows[CHOOSE i \in RowsOfKey(rows, pattern_key) : TRUE].occurrence_count

\* How many times a report carries a key.
Multiplicity(pattern_report, pattern_key) ==
    Cardinality({i \in 1..Len(upsert_calls(pattern_report)) :
                    upsert_calls(pattern_report)[i].pattern_key = pattern_key})

\* Every pattern key of the sample reports.
SampleKeys ==
    UNION {{upsert_calls(r)[i].pattern_key : i \in 1..Len(upsert_calls(r))} :
            r \in ReportSamples}

\* PatternStore.initialize: an existing database is only migrated, and the
\* migration swallows its errors; a missing one is created, which raises
\* when sqlite fails.
InitializeRaises == ~db_exists /\ storage = "failing"

\* A PatternStore call: the method, what it returned ("True", "False") or
\* that it raised, and the number of rows its INSERT OR REPLACE replaced.
StoreCall(op, result, replaced) == [op |-> op, result |-> result, replaced |-> replaced]

InitStore ==
    /\ db_exists = FALSE
    /\ storage = "ok"
    /\ weekly_snapshots = <<>>
    /\ store_call = StoreCall("none", "none", 0)

InitPatterns == pattern_history = <<>>

\* PatternStore.store_patterns(pattern_report): all upserts are committed
\* together; on an sqlite error nothing is committed and False is returned.
StorePatterns(pattern_report) ==
    /\ \A k \in SampleKeys :
           CountOfKey(pattern_history, k) + Multiplicity(pattern_report, k) <= MaxCount
    /\ IF InitializeRaises
       THEN /\ store_call' = StoreCall("store_patterns", "raised", 0)
            /\ UNCHANGED <<db_exists, pattern_history>>
       ELSE /\ db_exists' = TRUE
            /\ IF storage = "ok"
               THEN /\ pattern_history' =
                           upsert_all(pattern_history, upsert_calls(pattern_report))
                    /\ store_call' = StoreCall("store_patterns", "True", 0)
               ELSE /\ store_call' = StoreCall("store_patterns", "False", 0)
                    /\ UNCHANGED pattern_history
    /\ UNCHANGED <<storage, weekly_snapshots>>
    /\ UNCHANGED <<alertVars, trendVars, synthVars, predVars>>
    /\ UNCHANGED libVars

\* sqlite starts to fail (locked or unwritable database, full disk).
StorageFails ==
    /\ storage = "ok"
    /\ storage' = "failing"
    /\ UNCHANGED <<db_exists, pattern_history, weekly_snapshots, store_call>>
    /\ UNCHANGED <<alertVars, trendVars, synthVars, predVars>>
    /\ UNCHANGED libVars

StorageRecovers ==
    /\ storage = "failing"
    /\ storage' = "ok"
    /\ UNCHANGED <<db_exists, pattern_history, weekly_snapshots, store_call>>
    /\ UNCHANGED <<alertVars, trendVars, synthVars, predVars>>
    /\ UNCHANGED libVars

(***************************************************************************)
(* PatternStore: weekly_snapshots                                          *)
(***************************************************************************)

\* Bound on the calendar weeks.
MaxWeeks == 2

\* generate_weekly_snapshot: period_end = period_start + timedelta(days=6).
PERIOD_END_OFFSET == 6

\* A period runs from the Monday to the Sunday of a week; days are numbered
\* from the Monday of week 0.
Monday(w) == w * (PERIOD_END_OFFSET + 1)
Sunday(w) == Monday(w) + PERIOD_END_OFFSET

\* The metric values of the snapshots handed to store_weekly_snapshot.
StoredMetricSamples == {Snapshot(10, 10), Snapshot(14, 0)}

WeeklySnapshot(w, metrics) ==
    [period_start |-> Monday(w), period_end |-> Sunday(w), metrics |-> metrics]

WeeklySnapshotInputs ==
    {WeeklySnapshot(w, m) : w \in 1..MaxWeeks, m \in StoredMetricSamples}

SamePeriod(a, b) == a.period_start = b.period_start /\ a.period_end = b.period_end

\* INSERT OR IGNORE: a snapshot whose period is already stored is dropped.
insert_or_ignore_snapshot(rows, snapshot) ==
    IF \E i \in 1..Len(rows) : SamePeriod(rows[i], snapshot)
    THEN rows
    ELSE Append(rows, snapshot)

\* INSERT OR REPLACE INTO weekly_snapshots under UNIQUE(period_start,
\* period_end): the row of the same period is deleted, the new row inserted.
insert_or_replace_snapshot(rows, snapshot) ==
    Append(SelectSeq(rows, LAMBDA r : ~SamePeriod(r, snapshot)), snapshot)

\* PatternStore.store_weekly_snapshot(snapshot)
StoreWeeklySnapshot(snapshot) ==
    /\ IF InitializeRaises
       THEN /\ store_call' = StoreCall("store_weekly_snapshot", "raised", 0)
            /\ UNCHANGED <<db_exists, weekly_snapshots>>
       ELSE /\ db_exists' = TRUE
            /\ IF storage = "ok"
               THEN /\ weekly_snapshots' =
                           insert_or_replace_snapshot(weekly_snapshots, snapshot)
                    /\ store_call' =
                           StoreCall("store_weekly_snapshot", "True",
                                     Len(SelectSeq(weekly_snapshots,
                                                   LAMBDA r : SamePeriod(r, snapshot))))
               ELSE /\ store_call' = StoreCall("store_weekly_snapshot", "False", 0)
                    /\ UNCHANGED weekly_snapshots
    /\ UNCHANGED <<storage, pattern_history>>
    /\ UNCHANGED <<alertVars, trendVars, synthVars, predVars>>
    /\ UNCHANGED libVars

\* ORDER BY period_start DESC: the rows from the latest period to the
\* earliest.
RECURSIVE OrderByPeriodStartDesc(_)
OrderByPeriodStartDesc(rows) ==
    IF rows = <<>> THEN <<>>
    ELSE LET latest == CHOOSE i \in 1..Len(rows) :
                           \A j \in 1..Len(rows) :
                               \/ rows[j].period_start < rows[i].period_start
                               \/ rows[j].period_start = rows[i].period_start /\ i <= j
         IN <<rows[latest]>>
            \o OrderByPeriodStartDesc(
                   SubSeq(rows, 1, latest - 1) \o SubSeq(rows, latest + 1, Len(rows)))

\* PatternStore.get_recent_snapshots(weeks): the latest `weeks` rows, or the
\* empty list when sqlite fails.
get_recent_snapshots(rows, sqlite, weeks) ==
    IF sqlite = "ok"
    THEN SubSeq(OrderByPeriodStartDesc(rows), 1,
                IF Len(rows) < weeks THEN Len(rows) ELSE weeks)
    ELSE <<>>

(***************************************************************************)
(* ExecutiveSynthesizer.generate_executive_report                          *)
(***************************************************************************)

\* The three analyses handed to asyncio.gather.
Tasks == {"trends", "anomalies", "goals"}

\* Number of snapshots generate_executive_report asks the store for.
SYNTH_WEEKS_BACK == 4

\* The parameter names of PatternStore.get_recent_snapshots besides self, and
\* the keyword generate_executive_report passes.
GetRecentSnapshotsParameters == {"weeks"}
GetRecentSnapshotsKeyword == "weeks_back"

\* Python binds a keyword argument only to a parameter of that name; the
\* call raises TypeError otherwise.
KeywordBinds(keyword, parameters) == keyword \in parameters

NoRun ==
    [outcome |-> "none", error |-> "", week |-> 0, completed |-> {},
     snapshot_metrics |-> Snapshot(0, 0),
     trend_metrics |-> <<>>, anomalies |-> <<>>, goal_correlations |-> <<>>]

\* The exception leaves generate_executive_report.
Raised(error) == [NoRun EXCEPT !.outcome = "raised", !.error = error, !.week = week]

\* _empty_report
empty_report == [NoRun EXCEPT !.outcome = "report", !.week = week]

\* What an analysis returns when it does not raise: analyze_weekly_trends
\* one metric per tracked name once there is history, detect_anomalies the
\* anomalies of the current metrics, correlate_patterns_to_goals the goals.
TaskResult(task, previous, metrics) ==
    CASE task = "trends" -> IF previous = <<>> THEN <<>> ELSE MetricsToCheck
      [] task = "anomalies" ->
            LET detected == detect_anomalies(
                    [i \in 1..Len(previous) |-> previous[i].metrics], metrics,
                    THRESHOLD_STDDEV_DEFAULT)
            IN [i \in 1..Len(detected) |-> detected[i].metric_name]
      [] OTHER -> <<"goal">>

\* asyncio.gather(..., return_exceptions=True) and the three isinstance
\* checks: every task runs, and an exception becomes an empty list.
Gathered(task, previous, metrics) ==
    IF task \in failing_tasks THEN <<>> ELSE TaskResult(task, previous, metrics)

\* The report built from the gathered results.
full_report(previous, metrics) ==
    [NoRun EXCEPT !.outcome = "report", !.week = week,
                  !.completed = Tasks \ failing_tasks,
                  !.snapshot_metrics = metrics,
                  !.trend_metrics = Gathered("trends", previous, metrics),
                  !.anomalies = Gathered("anomalies", previous, metrics),
                  !.goal_correlations = Gathered("goals", previous, metrics)]

InitSynth ==
    /\ enabled \in BOOLEAN
    /\ failing_tasks \in SUBSET Tasks
    /\ week = 1
    /\ synth = NoRun

\* ExecutiveSynthesizer.generate_executive_report(pattern_report); metrics
\* are the values generate_weekly_snapshot computes from the pattern report.
GenerateExecutiveReport(metrics) ==
    /\ IF ~enabled
       THEN /\ synth' = empty_report
            /\ UNCHANGED db_exists
       ELSE IF InitializeRaises
       THEN /\ synth' = Raised("OperationalError")
            /\ UNCHANGED db_exists
       ELSE /\ db_exists' = TRUE
            /\ IF ~KeywordBinds(GetRecentSnapshotsKeyword, GetRecentSnapshotsParameters)
               THEN synth' = Raised("TypeError")
               ELSE synth' = full_report(
                        get_recent_snapshots(weekly_snapshots, storage, SYNTH_WEEKS_BACK),
                        metrics)
    /\ UNCHANGED <<storage, weekly_snapshots, store_call, pattern_history,
                   enabled, failing_tasks, week>>
    /\ UNCHANGED <<alertVars, trendVars, predVars>>
    /\ UNCHANGED libVars

\* A calendar week passes.
NextWeek ==
    /\ week < MaxWeeks
    /\ week' = week + 1
    /\ UNCHANGED <<enabled, failing_tasks, synth, storeVars, patternVars>>
    /\ UNCHANGED <<alertVars, trendVars, predVars>>
    /\ UNCHANGED libVars

(***************************************************************************)
(* PatternAnalyzer                                                         *)
(***************************************************************************)

\* Bound on the number of commands of one session in the events database.
MaxCommands == 3

\* Defaults of the analyzer's thresholds, and the divisors that turn a count
\* into a confidence, a similarity or a correlation (all kept in tenths).
COMMAND_MIN_OCCURRENCES_DEFAULT == 3
COMMAND_SEQUENCE_LENGTH_DEFAULT == 3
FILE_SIMILARITY_THRESHOLD_DEFAULT == 3
FILE_CLUSTER_MIN_SIZE_DEFAULT == 2
TIME_PEAK_WINDOW_HOURS_DEFAULT == 2
MIN_CORRELATION_DEFAULT == 5
FULL_CONFIDENCE_COUNT == 10
COMMAND_CORRELATION_FULL_COUNT == 5
PEAK_DAYS_KEPT == 3

\* The four analyses of analyze_all_patterns.
AnalysisNames ==
    {"command_sequences", "file_relationships", "time_patterns", "success_correlations"}

\* min(1.0, count / full), in tenths.
tenths_of(count, full) == IF count >= full THEN 10 ELSE (10 * count) \div full

\* PatternAnalyzer.__init__: the thresholds read from the configuration.
pattern_analyzer_init(config) ==
    [command_min_occurrences |->
        get(config, "command_min_occurrences", COMMAND_MIN_OCCURRENCES_DEFAULT),
     command_sequence_length |->
        get(config, "command_sequence_length", COMMAND_SEQUENCE_LENGTH_DEFAULT),
     file_similarity_threshold |->
        get(config, "file_similarity_threshold", FILE_SIMILARITY_THRESHOLD_DEFAULT),
     file_cluster_min_size |->
        get(config, "file_cluster_min_size", FILE_CLUSTER_MIN_SIZE_DEFAULT),
     time_peak_window_hours |->
        get(config, "time_peak_window_hours", TIME_PEAK_WINDOW_HOURS_DEFAULT),
     min_correlation |-> get(config, "min_correlation", MIN_CORRELATION_DEFAULT)]

\* Analyzer configurations: the defaults, shorter sequences, lower minimum
\* counts.
AnalyzerConfigSamples ==
    {[k \in {} |-> 0],
     [k \in {"command_sequence_length"} |-> 2],
     [k \in {"command_min_occurrences"} |-> 2],
     ("command_sequence_length" :> 2) @@ ("command_min_occurrences" :> 1),
     [k \in {"command_sequence_length", "command_min_occurrences"} |-> 2]}

\* The rows the command query returns for one session, in temporal order.
SessionRows(session_id, commands) ==
    [i \in 1..Len(commands) |-> [command_name |-> commands[i], session_id |-> session_id]]

\* Results of the command query, which orders by session and time: commands
\* of an event without session first (NULL sorts first), then session s1,
\* then session s2.
CommandNames == {"a", "b"}
CommandQueryResults ==
    {SessionRows("", orphan) \o SessionRows("s1", c1) \o SessionRows("s2", c2) :
        orphan \in {<<>>, <<"a">>},
        c1 \in SeqsUpTo(CommandNames, MaxCommands),
        c2 \in SeqsUpTo(CommandNames, MaxCommands)}
    \cup {SessionRows("s1", <<"a", "b", "c", "a", "b", "c">>)}

\* The elements of a sequence, each once, in the order of first appearance
\* (the key order of a dict or Counter filled from the sequence).
RECURSIVE FirstSeen(_)
FirstSeen(q) ==
    IF q = <<>> THEN <<>>
    ELSE LET front == FirstSeen(SubSeq(q, 1, Len(q) - 1)) IN
         IF q[Len(q)] \in Range(front) THEN front ELSE Append(front, q[Len(q)])

\* Concatenation of a sequence of sequences.
RECURSIVE Flatten(_)
Flatten(qs) == IF qs = <<>> THEN <<>> ELSE Head(qs) \o Flatten(Tail(qs))

\* All rows as one command list: the sessions are not told apart.
session_sequences_ungrouped(rows) ==
    LET kept == SelectSeq(rows, LAMBDA r : r.session_id # "")
    IN IF kept = <<>> THEN <<>>
       ELSE <<[i \in 1..Len(kept) |-> kept[i].command_name]>>

\* session_sequences: the command list of each session, rows without a
\* session id skipped.
session_sequences(rows) ==
    LET kept == SelectSeq(rows, LAMBDA r : r.session_id # "")
        ids == FirstSeen([i \in 1..Len(kept) |-> kept[i].session_id])
    IN [k \in 1..Len(ids) |->
            LET own == SelectSeq(kept, LAMBDA r : r.session_id = ids[k])
            IN [i \in 1..Len(own) |-> own[i].command_name]]

\* The n-grams of one command list: commands[i:i + n] for every start i.
ngrams(commands, n) ==
    IF Len(commands) < n THEN <<>>
    ELSE [i \in 1..(Len(commands) - n + 1) |-> SubSeq(commands, i, i + n - 1)]

\* A Counter fed with the items of a list: every item with its count, in the
\* order of first appearance.
Counter(items) ==
    LET keys == FirstSeen(items)
    IN [k \in 1..Len(keys) |->
            [key |-> keys[k],
             count |-> Len(SelectSeq(items, LAMBDA g : g = keys[k]))]]

\* sequence_counter: the n-grams of all sessions, counted.
sequence_counter(rows, n) ==
    LET sessions == session_sequences(rows)
    IN Counter(Flatten([k \in 1..Len(sessions) |-> ngrams(sessions[k], n)]))

\* Counter.most_common(): by count descending, equal counts in the order of
\* first appearance.
RECURSIVE most_common_from(_, _)
most_common_from(counter, count) ==
    IF count = 0 THEN <<>>
    ELSE SelectSeq(counter, LAMBDA e : e.count = count)
         \o most_common_from(counter, count - 1)

most_common(counter) ==
    LET top == IF counter = <<>> THEN 0
               ELSE CHOOSE c \in {counter[i].count : i \in 1..Len(counter)} :
                        \A i \in 1..Len(counter) : counter[i].count <= c
    IN most_common_from(counter, top)

\* analyze_command_sequences when the query succeeds.
command_sequences_of(rows, cfg) ==
    LET ranked == most_common(sequence_counter(rows, cfg.command_sequence_length))
        frequent == SelectSeq(ranked,
            LAMBDA e : e.count >= cfg.command_min_occurrences)
    IN [i \in 1..Len(frequent) |->
            [sequence |-> frequent[i].key,
             occurrence_count |-> frequent[i].count,
             confidence |-> tenths_of(frequent[i].count, FULL_CONFIDENCE_COUNT)]]

\* analyze_command_sequences: every exception ends in an empty list.
analyze_command_sequences(db, cfg, failing) ==
    IF "command_sequences" \in failing THEN <<>>
    ELSE command_sequences_of(db.command_usage, cfg)

\* Results of the file cluster query: file path, cluster id and edit count,
\* ordered by cluster id and edit count descending.
FileQuerySamples ==
    {<<>>,
     <<[file_path |-> File("src", "main"), cluster_id |-> "c1", edit_count |-> 4],
       [file_path |-> File("src", "util"), cluster_id |-> "c1", edit_count |-> 2],
       [file_path |-> File("docs", "readme"), cluster_id |-> "c2", edit_count |-> 9]>>,
     <<[file_path |-> File("src", "main"), cluster_id |-> "c1", edit_count |-> 2],
       [file_path |-> File("src", "util"), cluster_id |-> "c1", edit_count |-> 1]>>}

\* analyze_file_relationships when the query succeeds.
file_clusters_of(rows, cfg) ==
    LET ids == FirstSeen([i \in 1..Len(rows) |-> rows[i].cluster_id])
        members(id) == SelectSeq(rows, LAMBDA r : r.cluster_id = id)
        co_occurrence(id) ==
            CHOOSE c \in {members(id)[i].edit_count : i \in 1..Len(members(id))} :
                \A i \in 1..Len(members(id)) : members(id)[i].edit_count <= c
        kept == SelectSeq(ids,
            LAMBDA id : /\ Len(members(id)) >= cfg.file_cluster_min_size
                        /\ tenths_of(co_occurrence(id), FULL_CONFIDENCE_COUNT)
                               >= cfg.file_similarity_threshold)
    IN [k \in 1..Len(kept) |->
            LET files == [i \in 1..Len(members(kept[k])) |-> members(kept[k])[i].file_path]
            IN [files |-> files,
                co_occurrence_count |-> co_occurrence(kept[k]),
                jaccard_similarity |->
                    tenths_of(co_occurrence(kept[k]), FULL_CONFIDENCE_COUNT),
                cluster_id |-> FileCluster(files).cluster_id]]

\* analyze_file_relationships: every exception ends in an empty list.
analyze_file_relationships(db, cfg, failing) ==
    IF "file_relationships" \in failing THEN <<>>
    ELSE file_clusters_of(db.file_clusters, cfg)

\* Results of the time pattern query, every column with a value: hour of the
\* day, day of the week, duration in seconds and activity type.
TimeQuerySamples ==
    {<<>>,
     <<[hour |-> 9, day |-> 0, duration |-> 1800, activity_type |-> "active_work"],
       [hour |-> 14, day |-> 1, duration |-> 600, activity_type |-> "idle"],
       [hour |-> 14, day |-> 1, duration |-> 0, activity_type |-> "session_start"],
       [hour |-> 10, day |-> 2, duration |-> 600, activity_type |-> "session_start"]>>}

\* The first `count` elements of a list: q[:count].
Prefix(q, count) == SubSeq(q, 1, IF Len(q) < count THEN Len(q) ELSE count)

\* _find_peak_window: the first window_hours of the hours, which come sorted
\* by frequency.
find_peak_window(sorted_hours, window_hours) == Prefix(sorted_hours, window_hours)

\* analyze_time_patterns when the query succeeds: None (the empty list) or
\* one TimePatternSummary; the average session duration is kept as the total
\* of the durations and their number.
time_patterns_of(rows, cfg) ==
    IF rows = <<>> THEN <<>>
    ELSE LET hour_counts == most_common(Counter([i \in 1..Len(rows) |-> rows[i].hour]))
             day_counts == most_common(Counter([i \in 1..Len(rows) |-> rows[i].day]))
             sessions == SelectSeq(rows,
                 LAMBDA r : /\ r.duration # 0
                            /\ r.activity_type \in {"session_start", "active_work"})
             sorted_hours == [i \in 1..Len(hour_counts) |-> hour_counts[i].key]
         IN <<[peak_hours |-> find_peak_window(sorted_hours, cfg.time_peak_window_hours),
               peak_days |-> Prefix([i \in 1..Len(day_counts) |-> day_counts[i].key],
                                    PEAK_DAYS_KEPT),
               session_seconds |-> SumSeq([i \in 1..Len(sessions) |-> sessions[i].duration]),
               session_count |-> Len(sessions),
               session_count_by_hour |-> Counter([i \in 1..Len(rows) |-> rows[i].hour]),
               most_productive_hour |-> sorted_hours[1]]>>

\* analyze_time_patterns: every exception ends in None.
analyze_time_patterns(db, cfg, failing) ==
    IF "time_patterns" \in failing THEN <<>>
    ELSE time_patterns_of(db.time_patterns, cfg)

\* Results of the success signal queries: for every signal of the last
\* seven days the commands counted in the window before it, and the files
\* edited before a success signal with their counts.
SuccessQuerySamples ==
    {[signals |-> <<>>, file_edits |-> <<>>],
     [signals |->
        <<[signal_type |-> "git_commit",
           commands |-> <<[command_name |-> "/today", count |-> 3],
                          [command_name |-> "/commit", count |-> 2]>>],
          [signal_type |-> "task_complete",
           commands |-> <<[command_name |-> "/today", count |-> 5]>>]>>,
      file_edits |-> <<[file_path |-> "src/main.py", count |-> 6],
                       [file_path |-> "src/util.py", count |-> 4]>>]}

\* analyze_success_correlations when the queries succeed.
success_correlations_of(success, cfg) ==
    IF success.signals = <<>> THEN <<>>
    ELSE LET by_command(signal) ==
                 LET strong == SelectSeq(signal.commands,
                         LAMBDA c : tenths_of(c.count, COMMAND_CORRELATION_FULL_COUNT)
                                        >= cfg.min_correlation)
                 IN [i \in 1..Len(strong) |->
                        [activity_type |-> "command_usage",
                         activity_pattern |-> strong[i].command_name,
                         outcome_type |-> signal.signal_type,
                         correlation_strength |->
                             tenths_of(strong[i].count, COMMAND_CORRELATION_FULL_COUNT),
                         sample_size |-> strong[i].count]]
             edited == SelectSeq(success.file_edits,
                 LAMBDA f : tenths_of(f.count, FULL_CONFIDENCE_COUNT) >= cfg.min_correlation)
         IN Flatten([k \in 1..Len(success.signals) |-> by_command(success.signals[k])])
            \o [i \in 1..Len(edited) |->
                    [activity_type |-> "file_edit",
                     activity_pattern |-> edited[i].file_path,
                     outcome_type |-> "success",
                     correlation_strength |->
                         tenths_of(edited[i].count, FULL_CONFIDENCE_COUNT),
                     sample_size |-> edited[i].count]]

\* analyze_success_correlations: every exception ends in an empty list.
analyze_success_correlations(db, cfg, failing) ==
    IF "success_correlations" \in failing THEN <<>>
    ELSE success_correlations_of(db.success, cfg)

\* The PatternReport analyze_all_patterns builds from the four results.
analyzed_report(command_sequences, file_clusters, time_patterns, success_correlations) ==
    [command_sequences |-> command_sequences,
     file_clusters |-> file_clusters,
     time_patterns |-> time_patterns,
     success_correlations |-> success_correlations,
     confidence |->
        tenths_of(Len(command_sequences) + Len(file_clusters) + Len(success_correlations),
                  FULL_CONFIDENCE_COUNT)]

\* PatternReport.pattern_count: the sequences, the clusters, the correlations
\* and one more when the report holds time patterns.
pattern_count(self) ==
    Len(self.command_sequences) + Len(self.file_clusters)
        + Len(self.success_correlations)
        + (IF self.time_patterns # <<>> THEN 1 ELSE 0)

\* analyze_all_patterns without the handlers of the analyses: the first
\* failure ends the run, and the later analyses contribute nothing.
analyze_all_patterns_unguarded(db, cfg, failing) ==
    LET order == <<"command_sequences", "file_relationships", "time_patterns",
                   "success_correlations">>
        reached(k) == \A j \in 1..k : order[j] \notin failing
    IN analyzed_report(
           IF reached(1) THEN analyze_command_sequences(db, cfg, failing) ELSE <<>>,
           IF reached(2) THEN analyze_file_relationships(db, cfg, failing) ELSE <<>>,
           IF reached(3) THEN analyze_time_patterns(db, cfg, failing) ELSE <<>>,
           IF reached(4) THEN analyze_success_correlations(db, cfg, failing) ELSE <<>>)

\* analyze_all_patterns
analyze_all_patterns(db, cfg, failing) ==
    analyzed_report(
        analyze_command_sequences(db, cfg, failing),
        analyze_file_relationships(db, cfg, failing),
        analyze_time_patterns(db, cfg, failing),
        analyze_success_correlations(db, cfg, failing))

\* The events database: the results of the analyzer's queries.
EventsDb(command_usage, file_clusters, time_patterns, success) ==
    [command_usage |-> command_usage, file_clusters |-> file_clusters,
     time_patterns |-> time_patterns, success |-> success]

EmptySuccess == [signals |-> <<>>, file_edits |-> <<>>]

\* Databases with commands only, on every command history, and databases
\* with events of every kind.
EventsDbSamples ==
    {EventsDb(c, <<>>, <<>>, EmptySuccess) : c \in CommandQueryResults}
    \cup {EventsDb(c, f, t, u) :
            c \in {<<>>, SessionRows("s1", <<"a", "b", "a", "b">>)},
            f \in FileQuerySamples, t \in TimeQuerySamples, u \in SuccessQuerySamples}

\* The report variable before analyze_all_patterns has run.
NoAnalysis == analyzed_report(<<>>, <<>>, <<>>, <<>>)

InitAnalyzer ==
    /\ events_db \in EventsDbSamples
    /\ analyzer \in {pattern_analyzer_init(c) : c \in AnalyzerConfigSamples}
    /\ failing_queries \in SUBSET AnalysisNames
    /\ sequences_found = <<>>
    /\ analysis_report = NoAnalysis
    /\ analysis_pc = "idle"

\* PatternAnalyzer.analyze_command_sequences()
AnalyzeCommandSequences ==
    /\ analysis_pc = "idle"
    /\ sequences_found' = analyze_command_sequences(events_db, analyzer, failing_queries)
    /\ analysis_pc' = "sequences"
    /\ UNCHANGED <<events_db, analyzer, failing_queries, analysis_report>>
    /\ UNCHANGED <<coreVars, predictorVars, recommenderVars, helperVars, reportVars, runtimeVars>>

\* PatternAnalyzer.analyze_all_patterns()
AnalyzeAllPatterns ==
    /\ analysis_pc = "idle"
    /\ analysis_report' = analyze_all_patterns(events_db, analyzer, failing_queries)
    /\ analysis_pc' = "report"
    /\ UNCHANGED <<events_db, analyzer, failing_queries, sequences_found>>
    /\ UNCHANGED <<coreVars, predictorVars, recommenderVars, helperVars, reportVars, runtimeVars>>

(***************************************************************************)
(* PatternPredictor                                                        *)
(***************************************************************************)

\* Bound on the max_suggestions argument of predict_next_actions.
MaxSuggestions == 2

\* Numbers of the prediction strategies: the commands looked back, the
\* suggestions each strategy keeps, and the parts of their confidences.
RECENT_COMMANDS_USED == 3
COMMAND_SUGGESTIONS_KEPT == 5
CLUSTERS_USED == 3
CO_OCCURRENCE_ROWS_READ == 5
FILE_SUGGESTIONS_KEPT == 3
CO_OCCURRENCE_FULL_COUNT == 10
WORKFLOW_MIN_FREQUENCY == 3
WORKFLOW_FULL_SCORE == 100
WORKFLOW_STEPS_SUGGESTED == 2
WORKFLOW_CONFIDENCE_TENTHS == 9
MIN_CONFIDENCE_DEFAULT_TENTHS == 3

\* A confidence or score as the exact fraction num/den, den > 0.
Frac(num, den) == [num |-> num, den |-> den]
FracLess(a, b) == a.num * b.den < b.num * a.den
FracAtLeast(a, b) == ~FracLess(a, b)

\* min(x, 1.0)
at_most_one(x) == IF x.num >= x.den THEN Frac(1, 1) ELSE x

\* The last `count` elements of a list: q[-count:].
Suffix(q, count) == SubSeq(q, (IF Len(q) < count THEN 0 ELSE Len(q) - count) + 1, Len(q))

\* The element of a set of one element.  {F(v) : v \in {e}} evaluates e once
\* and hands its value to F.
TheOnly(singleton) == CHOOSE element \in singleton : TRUE

\* The place entry i takes when the entries are ordered by descending rank,
\* entries of equal rank in their original order.
descending_position(q, i) ==
    1 + Cardinality({j \in 1..Len(q) :
            \/ FracLess(q[i].rank, q[j].rank)
            \/ (j < i /\ ~FracLess(q[j].rank, q[i].rank))})

\* list.sort(key=..., reverse=True) and sorted(..., reverse=True) on entries
\* that carry their key in the field rank: descending, entries of equal key
\* in their original order.
sorted_descending(q) ==
    TheOnly({[place \in 1..Len(entries) |->
                 entries[CHOOSE i \in 1..Len(entries) :
                             descending_position(entries, i) = place]] :
             entries \in {q}})

\* An ActionSuggestion: command is "" for None, files is a list of paths.
ActionSuggestion(suggestion_type, command, files, confidence) ==
    [suggestion_type |-> suggestion_type, command |-> command, files |-> files,
     confidence |-> confidence]

\* Rows of table command_sequences, ordered by frequency descending: the
\* commands, the frequency, and the recency bonus of last_seen (1 for a
\* pattern seen today, 0 for a timestamp that does not parse).
CommandSequenceTables ==
    {<<>>,
     <<[commands |-> <<"a", "b", "c">>, frequency |-> 4, recency_bonus |-> 1],
       [commands |-> <<"x", "a", "b">>, frequency |-> 3, recency_bonus |-> 0],
       [commands |-> <<"a", "d">>, frequency |-> 1, recency_bonus |-> 0]>>}

\* Rows of table file_co_occurrences.
FileCoOccurrenceTables ==
    {<<>>,
     <<[source_file |-> "f1", related_file |-> "f3", co_occurrence_count |-> 8],
       [source_file |-> "f1", related_file |-> "f2", co_occurrence_count |-> 2],
       [source_file |-> "f2", related_file |-> "f3", co_occurrence_count |-> 12],
       [source_file |-> "f3", related_file |-> "f4", co_occurrence_count |-> 5]>>}

\* Rows of table workflow_patterns.
WorkflowPatternTables ==
    {<<>>,
     <<[pattern_name |-> "ship", commands |-> <<"a", "b">>, frequency |-> 90,
        completion_rate |-> 1],
       [pattern_name |-> "plan", commands |-> <<"a", "c", "d">>, frequency |-> 60,
        completion_rate |-> 1],
       [pattern_name |-> "rare", commands |-> <<"a", "e">>, frequency |-> 2,
        completion_rate |-> 1]>>}

\* Rows of table time_patterns.
TimePatternTables ==
    {<<>>,
     <<[activity_type |-> "general", hour |-> 9, success_count |-> 8, total_count |-> 10],
       [activity_type |-> "general", hour |-> 22, success_count |-> 1, total_count |-> 5],
       [activity_type |-> "general", hour |-> 3, success_count |-> 0, total_count |-> 0]>>}

\* The patterns database the predictor reads; available is FALSE when
\* sqlite raises on every access.
PredictorDbSamples ==
    [command_sequences : CommandSequenceTables,
     file_co_occurrences : FileCoOccurrenceTables,
     workflow_patterns : WorkflowPatternTables,
     time_patterns : TimePatternTables,
     available : BOOLEAN]

\* Prediction contexts: the recent commands and the active file clusters.
PredictionContextSamples ==
    [recent_commands : {<<>>, <<"a">>, <<"x", "a">>, <<"a", "c", "z">>},
     active_file_clusters : {<<>>, <<<<"f1">>>>, <<<<"f1", "f2">>, <<"f3">>>>}]

\* _predict_next_command: the transitions found in the stored sequences, as
\* (next command, score, frequency) in the order they are found.
transitions_of(rows, recent) ==
    Flatten([k \in 1..Len(rows) |->
        LET commands == rows[k].commands
            starts == SelectSeq([i \in 1..(IF Len(commands) > Len(recent)
                                           THEN Len(commands) - Len(recent) ELSE 0) |-> i],
                LAMBDA i : SubSeq(commands, i, i + Len(recent) - 1) = recent)
        IN [j \in 1..Len(starts) |->
                [next_cmd |-> commands[starts[j] + Len(recent)],
                 score |-> rows[k].frequency * (1 + rows[k].recency_bonus),
                 frequency |-> rows[k].frequency]]])

\* _predict_next_command, from the transitions found: the five commands of
\* highest score, each with score / max(total_count, 1) limited to 1.
command_suggestions_of(found) ==
    LET total_count == SumSeq([i \in 1..Len(found) |-> found[i].frequency])
        next_cmds == FirstSeen([i \in 1..Len(found) |-> found[i].next_cmd])
        ranked == sorted_descending(
            [i \in 1..Len(next_cmds) |->
                [rank |-> Frac(SumSeq([k \in 1..Len(found) |->
                                   IF found[k].next_cmd = next_cmds[i]
                                   THEN found[k].score ELSE 0]), 1),
                 cmd |-> next_cmds[i]]])
    IN TheOnly({[i \in 1..Len(best) |->
                    ActionSuggestion("command_next", best[i].cmd, <<>>,
                        at_most_one(Frac(best[i].rank.num,
                                         IF total_count > 1 THEN total_count ELSE 1)))] :
                best \in {Prefix(ranked, COMMAND_SUGGESTIONS_KEPT)}})

\* _predict_next_command
predict_next_command(db, context) ==
    IF context.recent_commands = <<>> \/ ~db.available THEN <<>>
    ELSE TheOnly({command_suggestions_of(found) :
                  found \in {transitions_of(db.command_sequences,
                                 Suffix(context.recent_commands, RECENT_COMMANDS_USED))}})

\* _suggest_related_files, one file of a cluster: the rows of the file by
\* descending count, the ones whose related file was not seen become
\* suggestions and their files are seen from then on.
related_of_file(db, file, acc) ==
    TheOnly({[suggestions |-> acc.suggestions \o
                 [i \in 1..Len(fresh) |->
                     ActionSuggestion("file_related", "", <<fresh[i].row.related_file>>,
                         at_most_one(Frac(fresh[i].row.co_occurrence_count,
                                          CO_OCCURRENCE_FULL_COUNT)))],
              seen_files |-> acc.seen_files
                 \cup {fresh[i].row.related_file : i \in 1..Len(fresh)}] :
        fresh \in {SelectSeq(
            Prefix(sorted_descending(
                TheOnly({[i \in 1..Len(rows) |->
                             [rank |-> Frac(rows[i].co_occurrence_count, 1), row |-> rows[i]]] :
                         rows \in {SelectSeq(db.file_co_occurrences,
                                             LAMBDA r : r.source_file = file)}})),
                CO_OCCURRENCE_ROWS_READ),
            LAMBDA e : e.row.related_file \notin acc.seen_files)}})

\* _suggest_related_files, the loop over the files of one cluster.
RECURSIVE related_of_files(_, _, _)
related_of_files(db, files, acc) ==
    IF files = <<>> THEN acc
    ELSE TheOnly({related_of_files(db, rest, next) :
                  rest \in {Tail(files)},
                  next \in {related_of_file(db, Head(files), acc)}})

\* _suggest_related_files, the loop over the clusters: a cluster's files are
\* seen before its rows are read.
RECURSIVE related_of_clusters(_, _, _)
related_of_clusters(db, clusters, acc) ==
    IF clusters = <<>> THEN acc
    ELSE TheOnly({related_of_clusters(db, rest, next) :
                  rest \in {Tail(clusters)},
                  next \in {related_of_files(db, Head(clusters),
                               [suggestions |-> acc.suggestions,
                                seen_files |-> acc.seen_files \cup Range(Head(clusters))])}})

\* _suggest_related_files, from the suggestions found: per file the most
\* confident suggestion, the three most confident ones returned.
file_suggestions_of(found) ==
    LET keys == FirstSeen([i \in 1..Len(found) |-> found[i].files])
        unique == [k \in 1..Len(keys) |->
            sorted_descending(
                TheOnly({[i \in 1..Len(own) |-> [rank |-> own[i].confidence,
                                                 suggestion |-> own[i]]] :
                         own \in {SelectSeq(found, LAMBDA g : g.files = keys[k])}})
            )[1].suggestion]
    IN TheOnly({[i \in 1..Len(best) |-> best[i].suggestion] :
                best \in {Prefix(sorted_descending(
                              [i \in 1..Len(keys) |-> [rank |-> unique[i].confidence,
                                                       suggestion |-> unique[i]]]),
                              FILE_SUGGESTIONS_KEPT)}})

\* _suggest_related_files
suggest_related_files(db, context) ==
    IF context.active_file_clusters = <<>> THEN <<>>
    ELSE IF ~db.available THEN <<>>
    ELSE TheOnly({file_suggestions_of(found.suggestions) :
                  found \in {related_of_clusters(db,
                                 Prefix(context.active_file_clusters, CLUSTERS_USED),
                                 [suggestions |-> <<>>, seen_files |-> {}])}})

\* The number of leading commands of recent_commands that equal the leading
\* commands of a pattern.
RECURSIVE match_length(_, _)
match_length(recent_commands, pattern_commands) ==
    IF recent_commands = <<>> \/ pattern_commands = <<>> THEN 0
    ELSE IF Head(recent_commands) # Head(pattern_commands) THEN 0
    ELSE 1 + match_length(Tail(recent_commands), Tail(pattern_commands))

\* suggest_workflow_completion, one row: the best match so far, replaced
\* when the row matches a proper part of its commands with a higher score.
better_workflow(row, recent_commands, best, matched) ==
    IF /\ matched > 0
       /\ matched < Len(row.commands)
       /\ FracLess(best.score, Frac(matched * row.frequency, Len(row.commands)))
    THEN [score |-> Frac(matched * row.frequency, Len(row.commands)),
          match |-> <<[workflow_name |-> row.pattern_name,
                       completed_steps |-> Suffix(recent_commands, matched),
                       predicted_steps |->
                           SubSeq(row.commands, matched + 1, Len(row.commands)),
                       confidence |->
                           at_most_one(Frac(matched * row.frequency,
                                            Len(row.commands) * WORKFLOW_FULL_SCORE))]>>]
    ELSE best

\* suggest_workflow_completion: the loop that keeps the best match among the
\* rows, which come ordered by frequency.
RECURSIVE best_workflow(_, _, _)
best_workflow(rows, recent_commands, best) ==
    IF rows = <<>> THEN best
    ELSE TheOnly({best_workflow(rest, recent_commands, next) :
                  rest \in {Tail(rows)},
                  next \in {better_workflow(Head(rows), recent_commands, best, matched) :
                            matched \in {match_length(recent_commands,
                                                      Head(rows).commands)}}})

\* suggest_workflow_completion: None (the empty list) or one
\* WorkflowPrediction.
suggest_workflow_completion(db, recent_commands) ==
    IF recent_commands = <<>> \/ ~db.available THEN <<>>
    ELSE TheOnly({best_workflow([i \in 1..Len(rows) |-> rows[i].row], recent_commands,
                                [score |-> Frac(0, 1), match |-> <<>>]).match :
                  rows \in {sorted_descending(
                      TheOnly({[i \in 1..Len(frequent) |->
                                   [rank |-> Frac(frequent[i].frequency, 1),
                                    row |-> frequent[i]]] :
                               frequent \in {SelectSeq(db.workflow_patterns,
                                   LAMBDA r : r.frequency >= WORKFLOW_MIN_FREQUENCY)}}))}})

\* The suggestions predict_next_actions makes of a workflow prediction.
workflow_suggestions(workflow) ==
    IF workflow = <<>> THEN <<>>
    ELSE TheOnly({[i \in 1..Len(steps) |->
                      ActionSuggestion("workflow_completion", steps[i], <<>>,
                          Frac(workflow[1].confidence.num * WORKFLOW_CONFIDENCE_TENTHS,
                               workflow[1].confidence.den * 10))] :
                  steps \in {Prefix(workflow[1].predicted_steps, WORKFLOW_STEPS_SUGGESTED)}})

\* suggest_optimal_timing: the score of the current hour; 7/10 without data,
\* 6/10 when the database fails, 1/2 when the hour has no data.
current_timing_score(db, activity_type, hour) ==
    IF ~db.available THEN Frac(6, 10)
    ELSE LET hourly == SelectSeq(db.time_patterns,
                 LAMBDA r : r.activity_type = activity_type /\ r.total_count > 0)
             now_rows == SelectSeq(hourly, LAMBDA r : r.hour = hour)
         IN IF hourly = <<>> THEN Frac(7, 10)
            ELSE IF now_rows = <<>> THEN Frac(1, 2)
            ELSE Frac(now_rows[1].success_count, now_rows[1].total_count)

\* The suggestion predict_next_actions makes when the current hour scores
\* below one half.
timing_suggestions(score) ==
    IF FracLess(score, Frac(1, 2))
    THEN <<ActionSuggestion("optimal_timing", "", <<>>,
                            Frac(score.den - score.num, score.den))>>
    ELSE <<>>

\* The four strategies' suggestions, merged in the order of the strategies.
merged_suggestions(db, context, hour) ==
    predict_next_command(db, context)
    \o suggest_related_files(db, context)
    \o TheOnly({workflow_suggestions(workflow) :
                workflow \in {suggest_workflow_completion(db, context.recent_commands)}})
    \o TheOnly({timing_suggestions(score) :
                score \in {current_timing_score(db, "general", hour)}})

\* The merge without the seen_commands set: suggestions are only filtered
\* by confidence.
unique_suggestions_unchecked(suggestions, min_confidence) ==
    SelectSeq(suggestions, LAMBDA g : FracAtLeast(g.confidence, min_confidence))

\* The deduplication loop of predict_next_actions, one suggestion: it is
\* kept when its (command, files) key was not kept before and its
\* confidence reaches min_confidence.
with_suggestion(kept, suggestion, min_confidence) ==
    IF /\ \A i \in 1..Len(kept) :
              <<kept[i].command, kept[i].files>> # <<suggestion.command, suggestion.files>>
       /\ FracAtLeast(suggestion.confidence, min_confidence)
    THEN Append(kept, suggestion)
    ELSE kept

\* The deduplication loop of predict_next_actions.
RECURSIVE unique_suggestions(_, _)
unique_suggestions(suggestions, min_confidence) ==
    IF suggestions = <<>> THEN <<>>
    ELSE TheOnly({with_suggestion(kept, suggestions[Len(suggestions)], min_confidence) :
                  kept \in {unique_suggestions(
                                SubSeq(suggestions, 1, Len(suggestions) - 1),
                                min_confidence)}})

\* The end of predict_next_actions: the suggestions by descending confidence,
\* the first max_suggestions of them.
top_suggestions(unique, max_suggestions) ==
    TheOnly({[i \in 1..Len(best) |-> best[i].suggestion] :
             best \in {Prefix(sorted_descending(
                           [i \in 1..Len(unique) |-> [rank |-> unique[i].confidence,
                                                      suggestion |-> unique[i]]]),
                           max_suggestions)}})

\* predict_next_actions(context, max_suggestions, min_confidence)
predict_next_actions(db, context, hour, max_suggestions, min_confidence) ==
    TheOnly({top_suggestions(unique, max_suggestions) :
             unique \in {unique_suggestions(merged, min_confidence) :
                         merged \in {merged_suggestions(db, context, hour)}}})

\* The arguments of predict_next_actions: the default max_suggestions is
\* replaced by small values, min_confidence is 0, the default 3/10 or 9/10.
PredictArgumentSamples ==
    [max_suggestions : 0..MaxSuggestions,
     min_confidence : {Frac(0, 10), Frac(MIN_CONFIDENCE_DEFAULT_TENTHS, 10), Frac(9, 10)}]

\* The hours suggest_optimal_timing names without data, and the ones it
\* names when the database fails.
DEFAULT_OPTIMAL_HOURS == <<9, 10, 11, 14, 15>>
DEFAULT_PEAK_HOURS == <<9, 10, 11>>
FALLBACK_HOURS == <<9, 10, 11>>
OPTIMAL_HOURS_KEPT == 5
PEAK_HOURS_KEPT == 3

\* A TimingSuggestion, without its rationale.
TimingSuggestion(activity_type, hour, optimal_hours, current_score, peak_hours, average) ==
    [activity_type |-> activity_type, current_hour |-> hour,
     optimal_hours |-> optimal_hours, current_score |-> current_score,
     peak_productivity_hours |-> peak_hours, average_success_rate |-> average]

\* statistics.mean of the success rates of the hourly data.
RECURSIVE rate_sum(_)
rate_sum(hourly) ==
    IF hourly = <<>> THEN Frac(0, 1)
    ELSE TheOnly({Frac(Head(hourly).rank.num * rest.den + rest.num * Head(hourly).rank.den,
                       Head(hourly).rank.den * rest.den) :
                  rest \in {rate_sum(Tail(hourly))}})

mean_success_rate(hourly) ==
    TheOnly({Frac(total.num, total.den * Len(hourly)) : total \in {rate_sum(hourly)}})

\* suggest_optimal_timing: the rows of the activity type by descending
\* success_count, the ones with a total kept, with their success rate as
\* rank and ordered by it.
hourly_data_of(db, activity_type) ==
    sorted_descending(
        TheOnly({[i \in 1..Len(counted) |->
                     [rank |-> Frac(counted[i].row.success_count, counted[i].row.total_count),
                      hour |-> counted[i].row.hour]] :
                 counted \in {SelectSeq(
                     sorted_descending(
                         TheOnly({[i \in 1..Len(rows) |->
                                      [rank |-> Frac(rows[i].success_count, 1),
                                       row |-> rows[i]]] :
                                  rows \in {SelectSeq(db.time_patterns,
                                      LAMBDA r : r.activity_type = activity_type)}})),
                     LAMBDA e : e.row.total_count > 0)}}))

\* suggest_optimal_timing when the query succeeds.
timing_of(hourly_data, activity_type, hour) ==
    IF hourly_data = <<>>
    THEN TimingSuggestion(activity_type, hour, DEFAULT_OPTIMAL_HOURS, Frac(7, 10),
                          DEFAULT_PEAK_HOURS, Frac(7, 10))
    ELSE LET hours == [i \in 1..Len(hourly_data) |-> hourly_data[i].hour]
             current == SelectSeq(hourly_data, LAMBDA e : e.hour = hour)
         IN TimingSuggestion(activity_type, hour,
                Prefix(hours, OPTIMAL_HOURS_KEPT),
                IF current = <<>> THEN Frac(1, 2) ELSE current[1].rank,
                Prefix(hours, PEAK_HOURS_KEPT),
                mean_success_rate(hourly_data))

\* suggest_optimal_timing with one answer for a database that fails and for
\* one without data.
suggest_optimal_timing_one_fallback(db, activity_type, hour) ==
    TheOnly({IF ~db.available \/ hourly_data = <<>>
             THEN TimingSuggestion(activity_type, hour, FALLBACK_HOURS, Frac(6, 10),
                                   FALLBACK_HOURS, Frac(6, 10))
             ELSE timing_of(hourly_data, activity_type, hour) :
             hourly_data \in {hourly_data_of(db, activity_type)}})

\* suggest_optimal_timing(activity_type) at the hour `hour`
suggest_optimal_timing(db, activity_type, hour) ==
    IF ~db.available
    THEN TimingSuggestion(activity_type, hour, FALLBACK_HOURS, Frac(6, 10),
                          FALLBACK_HOURS, Frac(6, 10))
    ELSE TheOnly({timing_of(hourly_data, activity_type, hour) :
                  hourly_data \in {hourly_data_of(db, activity_type)}})

\* The activity types suggest_optimal_timing is asked about.
ActivityTypes == {"general", "deep_work"}

InitPredictor ==
    /\ predictor_db \in PredictorDbSamples
    /\ prediction_context \in PredictionContextSamples
    /\ predict_args \in PredictArgumentSamples
    /\ current_hour \in {9, 22}
    /\ predicted = <<>>
    /\ predictor_pc = "idle"

\* PatternPredictor.predict_next_actions(context, max_suggestions, min_confidence)
PredictNextActions ==
    /\ predictor_pc = "idle"
    /\ predicted' = predict_next_actions(predictor_db, prediction_context, current_hour,
                                         predict_args.max_suggestions,
                                         predict_args.min_confidence)
    /\ predictor_pc' = "returned"
    /\ UNCHANGED <<predictor_db, prediction_context, predict_args, current_hour>>
    /\ UNCHANGED <<coreVars, analyzerVars, recommenderVars, helperVars, reportVars, runtimeVars>>

\* PatternPredictor._predict_next_command(context)
PredictNextCommand ==
    /\ predictor_pc = "idle"
    /\ predicted' = predict_next_command(predictor_db, prediction_context)
    /\ predictor_pc' = "next_command"
    /\ UNCHANGED <<predictor_db, prediction_context, predict_args, current_hour>>
    /\ UNCHANGED <<coreVars, analyzerVars, recommenderVars, helperVars, reportVars, runtimeVars>>

\* PatternPredictor._suggest_related_files(context)
SuggestRelatedFiles ==
    /\ predictor_pc = "idle"
    /\ predicted' = suggest_related_files(predictor_db, prediction_context)
    /\ predictor_pc' = "related_files"
    /\ UNCHANGED <<predictor_db, prediction_context, predict_args, current_hour>>
    /\ UNCHANGED <<coreVars, analyzerVars, recommenderVars, helperVars, reportVars, runtimeVars>>

\* PatternPredictor.suggest_workflow_completion(recent_commands)
SuggestWorkflowCompletion ==
    /\ predictor_pc = "idle"
    /\ predicted' = suggest_workflow_completion(predictor_db,
                                                prediction_context.recent_commands)
    /\ predictor_pc' = "workflow"
    /\ UNCHANGED <<predictor_db, prediction_context, predict_args, current_hour>>
    /\ UNCHANGED <<coreVars, analyzerVars, recommenderVars, helperVars, reportVars, runtimeVars>>

\* PatternPredictor.suggest_optimal_timing(activity_type)
SuggestOptimalTiming(activity_type) ==
    /\ predictor_pc = "idle"
    /\ predicted' = <<suggest_optimal_timing(predictor_db, activity_type, current_hour)>>
    /\ predictor_pc' = "timing"
    /\ UNCHANGED <<predictor_db, prediction_context, predict_args, current_hour>>
    /\ UNCHANGED <<coreVars, analyzerVars, recommenderVars, helperVars, reportVars, runtimeVars>>

(***************************************************************************)
(* GoalAwareRecommender                                                    *)
(***************************************************************************)

\* Bounds on the file clusters and command sequences of a pattern report.
MaxGoalClusters == 2
MaxGoalSequences == 2

\* Alignment scores are counted in tenths: a file match adds 0.3, a command
\* match 0.2, a keyword match 0.1; the score is at most 1.0.  The
\* thresholds below are ones at which the sums of these floats compare as
\* the exact tenths do.
FILE_MATCH_TENTHS == 3
COMMAND_MATCH_TENTHS == 2
KEYWORD_MATCH_TENTHS == 1
FULL_ALIGNMENT_TENTHS == 10
MIN_ALIGNMENT_SCORE_DEFAULT_TENTHS == 3
MAX_CORRELATIONS_PER_OKR_DEFAULT == 3
ON_TRACK_TENTHS == 7
AT_RISK_TENTHS == 4
RECOMMENDATIONS_KEPT == 3

\* Strings are lists of tokens.  `pattern in text`.
Contains(pattern, text) ==
    \E i \in 0..(IF Len(text) >= Len(pattern) THEN Len(text) - Len(pattern) ELSE -1) :
        SubSeq(text, i + 1, i + Len(pattern)) = pattern

\* str.lower()
LowerToken(token) ==
    IF token = "Products" THEN "products"
    ELSE IF token = "DPD" THEN "dpd"
    ELSE IF token = "Risk" THEN "risk"
    ELSE token
Lower(text) == [i \in 1..Len(text) |-> LowerToken(text[i])]

\* command.lstrip("/")
RECURSIVE lstrip_slash(_)
lstrip_slash(text) ==
    IF text # <<>> /\ Head(text) = "/" THEN lstrip_slash(Tail(text)) ELSE text

\* The objectives load_okrs returns, in the order of the dictionary: some of
\* DEFAULT_OKRS, and objectives parsed from the OKR file, which have
\* keywords (with repetitions) but no file patterns and no commands.
OkrSamples ==
    {<<[okr_id |-> "obj1", title |-> "Decisions Improve as Work Happens",
        keywords |-> <<<<"dependency">>, <<"risk">>>>,
        file_patterns |-> <<<<"Products", "/", "DPD", "/">>,
                            <<"Products", "/", "AgilePlace", "/">>>>,
        commands |-> <<<<"/", "today">>, <<"/", "commit">>>>],
       [okr_id |-> "obj3", title |-> "Outcomes are Visible, Predictable, and Managed",
        keywords |-> <<<<"outcome">>, <<"tracking">>>>,
        file_patterns |-> <<<<"memory-bank", "/">>, <<"Docs", "/", "memos", "/">>>>,
        commands |-> <<<<"/", "today">>, <<"memory">>>>]>>,
     <<[okr_id |-> "obj1", title |-> "Parsed objective",
        keywords |-> <<<<"risk">>, <<"tracking">>, <<"risk">>>>,
        file_patterns |-> <<>>,
        commands |-> <<>>],
       [okr_id |-> "obj2", title |-> "Another parsed objective",
        keywords |-> <<<<"outcome">>>>,
        file_patterns |-> <<>>,
        commands |-> <<>>]>>}

\* File clusters and command sequences of a PatternReport.
FileClusterSamples ==
    {<<<<"Products", "/", "DPD", "/", "Risk">>, <<"Products", "/", "DPD", "/", "plan">>>>,
     <<<<"memory-bank", "/", "tracking">>>>,
     <<<<"notes">>>>}
GoalCommandSequenceSamples ==
    {<<<<"/", "memory">>, <<"/", "today">>>>,
     <<<<"memory", "-", "sync">>, <<"/", "/", "memory">>, <<"memory">>>>}

\* All lists of at most `bound` elements of a set.
ListsUpTo(elements, bound) == UNION {[1..n -> elements] : n \in 0..bound}

GoalPatternReports ==
    [file_clusters : ListsUpTo(FileClusterSamples, MaxGoalClusters),
     command_sequences : ListsUpTo(GoalCommandSequenceSamples, MaxGoalSequences)]

\* The config dictionaries of the recommender: none, and ones that set
\* goal_recommendations.min_alignment_score.
GoalConfigSamples ==
    {[k \in {} |-> 0], [min_alignment_score |-> 0], [min_alignment_score |-> 5],
     [max_correlations_per_okr |-> 1]}

\* GoalAwareRecommender.__init__
goal_recommender_init(goal_config) ==
    [min_alignment_score |->
         get(goal_config, "min_alignment_score", MIN_ALIGNMENT_SCORE_DEFAULT_TENTHS),
     max_correlations_per_okr |->
         get(goal_config, "max_correlations_per_okr", MAX_CORRELATIONS_PER_OKR_DEFAULT)]

\* The file matches of one objective: one entry per file path that contains
\* one of the objective's file patterns.
file_matches(okr, file_paths) ==
    LET hits == SelectSeq(file_paths, LAMBDA path :
                    \E k \in 1..Len(okr.file_patterns) : Contains(okr.file_patterns[k], path))
    IN [i \in 1..Len(hits) |-> [kind |-> "file", text |-> hits[i],
                                factor |-> FILE_MATCH_TENTHS]]

\* The command matches of one objective, on the commands without their
\* leading slashes.
command_matches(okr, commands) ==
    LET clean == [i \in 1..Len(commands) |-> lstrip_slash(commands[i])]
        hits == SelectSeq(clean, LAMBDA command :
                    \E k \in 1..Len(okr.commands) : Contains(okr.commands[k], command))
    IN [i \in 1..Len(hits) |-> [kind |-> "cmd", text |-> hits[i],
                                factor |-> COMMAND_MATCH_TENTHS]]

\* The keyword matches of one objective: a keyword found in a file path is
\* counted once.
keyword_matches(okr, file_paths) ==
    LET hits == SelectSeq(okr.keywords, LAMBDA keyword :
                    \E k \in 1..Len(file_paths) :
                        Contains(Lower(keyword), Lower(file_paths[k])))
        once == FirstSeen(hits)
    IN [i \in 1..Len(once) |-> [kind |-> "kw", text |-> once[i],
                                factor |-> KEYWORD_MATCH_TENTHS]]

\* aligned_patterns with their alignment_factors for one objective.
aligned_patterns_of(okr, file_paths, commands) ==
    file_matches(okr, file_paths) \o command_matches(okr, commands)
        \o keyword_matches(okr, file_paths)

\* sum(alignment_factors)
raw_score_of(aligned) == SumSeq([i \in 1..Len(aligned) |-> aligned[i].factor])

\* The score without the limit of 1.0.
alignment_score_unclamped(aligned) == raw_score_of(aligned)

\* min(1.0, raw_score), and 0.0 without factors.
alignment_score_of(aligned) ==
    IF raw_score_of(aligned) > FULL_ALIGNMENT_TENTHS
    THEN FULL_ALIGNMENT_TENTHS
    ELSE raw_score_of(aligned)

\* _determine_progress_indicator
determine_progress_indicator(alignment_score) ==
    IF alignment_score >= ON_TRACK_TENTHS THEN "on_track"
    ELSE IF alignment_score >= AT_RISK_TENTHS THEN "at_risk"
    ELSE "behind"

\* _generate_goal_recommendations, each recommendation named by its cause.
generate_goal_recommendations(okr, aligned, alignment_score) ==
    Prefix((IF alignment_score < AT_RISK_TENTHS THEN <<"low_alignment">> ELSE <<>>)
           \o (IF <<"dependency">> \in Range(okr.keywords) THEN <<"dependency">> ELSE <<>>)
           \o (IF <<"ai">> \in Range(okr.keywords) THEN <<"ai">> ELSE <<>>)
           \o (IF <<"outcome">> \in Range(okr.keywords) THEN <<"outcome">> ELSE <<>>)
           \o (IF aligned # <<>> /\ aligned[1].kind = "file" THEN <<"continue_work">>
               ELSE IF aligned # <<>> /\ aligned[1].kind = "cmd" THEN <<"leverage_workflow">>
               ELSE <<>>),
           RECOMMENDATIONS_KEPT)

\* The GoalCorrelation of one objective.
GoalCorrelation(self, okr, aligned) ==
    [okr_id |-> okr.okr_id,
     okr_title |-> okr.title,
     aligned_patterns |->
         [i \in 1..Len(Prefix(aligned, self.max_correlations_per_okr)) |->
             <<aligned[i].kind, aligned[i].text>>],
     alignment_score |-> alignment_score_of(aligned),
     progress_indicator |-> determine_progress_indicator(alignment_score_of(aligned)),
     recommendations |->
         generate_goal_recommendations(okr, aligned, alignment_score_of(aligned)),
     evidence_count |-> Len(aligned)]

\* file_paths and commands gathered from the pattern report.
report_file_paths(pattern_report) == Flatten(pattern_report.file_clusters)
report_commands(pattern_report) == Flatten(pattern_report.command_sequences)

\* correlate_patterns_to_goals
correlate_patterns_to_goals(self, objectives, pattern_report) ==
    LET correlations ==
            [i \in 1..Len(objectives) |->
                GoalCorrelation(self, objectives[i],
                    aligned_patterns_of(objectives[i], report_file_paths(pattern_report),
                                        report_commands(pattern_report)))]
        kept == SelectSeq(correlations,
                    LAMBDA c : c.alignment_score >= self.min_alignment_score)
        ranked == sorted_descending(
            [i \in 1..Len(kept) |-> [rank |-> Frac(kept[i].alignment_score, 10),
                                     correlation |-> kept[i]]])
    IN [i \in 1..Len(ranked) |-> ranked[i].correlation]

InitRecommender ==
    /\ recommender \in {goal_recommender_init(c) : c \in GoalConfigSamples}
    /\ okrs \in OkrSamples
    /\ goal_pattern_report \in GoalPatternReports
    /\ goal_correlations = <<>>
    /\ recommender_pc = "idle"

\* GoalAwareRecommender.correlate_patterns_to_goals(pattern_report)
CorrelatePatternsToGoals ==
    /\ recommender_pc = "idle"
    /\ goal_correlations' = correlate_patterns_to_goals(recommender, okrs, goal_pattern_report)
    /\ recommender_pc' = "returned"
    /\ UNCHANGED <<recommender, okrs, goal_pattern_report>>
    /\ UNCHANGED <<coreVars, analyzerVars, predictorVars, helperVars, reportVars, runtimeVars>>

(***************************************************************************)
(* pattern_models helper functions                                         *)
(***************************************************************************)

\* The sets handed to calculate_jaccard_similarity hold at most this many
\* different elements.
MaxElements == 3

JaccardSets == SUBSET (1..MaxElements)

\* A division that takes the first set for the union.
jaccard_over_first_set(set1, set2) ==
    IF set1 = {} \/ set2 = {} THEN Frac(0, 1)
    ELSE Frac(Cardinality(set1 \cap set2), Cardinality(set1))

\* calculate_jaccard_similarity(set1, set2): the quotient as an exact
\* fraction, 0.0 as 0/1.
calculate_jaccard_similarity(set1, set2) ==
    IF set1 = {} \/ set2 = {} THEN Frac(0, 1)
    ELSE IF Cardinality(set1 \cup set2) > 0
         THEN Frac(Cardinality(set1 \cap set2), Cardinality(set1 \cup set2))
         ELSE Frac(0, 1)

\* float == float on two quotients of integers.
FracEqual(a, b) == a.num * b.den = b.num * a.den

InitJaccard ==
    /\ jaccard_sets \in JaccardSets \X JaccardSets
    /\ jaccard_similarity = <<>>

\* calculate_jaccard_similarity(set1, set2)
CalculateJaccardSimilarity ==
    /\ jaccard_similarity = <<>>
    /\ jaccard_similarity' =
           <<calculate_jaccard_similarity(jaccard_sets[1], jaccard_sets[2])>>
    /\ UNCHANGED jaccard_sets
    /\ UNCHANGED <<coreVars, analyzerVars, predictorVars, recommenderVars, reportVars, runtimeVars>>

(***************************************************************************)
(* Report types and their dictionaries                                     *)
(***************************************************************************)

\* The lists of a report hold at most this many entries.
MaxReportItems == 1

\* None is the empty list, a present value a list of one.
None == <<>>
Some(value) == <<value>>

\* Enum members and their values.
AlertSeverityValues == ("CRITICAL" :> "critical") @@ ("WARNING" :> "warning") @@ ("INFO" :> "info")
AlertCategoryValues == ("PRODUCTIVITY" :> "productivity") @@ ("ANOMALY" :> "anomaly")
TrendDirectionValues == ("UP" :> "up") @@ ("DOWN" :> "down") @@ ("STABLE" :> "stable")
TrendSignificanceValues == ("SIGNIFICANT" :> "significant") @@ ("NOTABLE" :> "notable")
ProgressIndicatorValues == ("ON_TRACK" :> "on_track") @@ ("AT_RISK" :> "at_risk") @@ ("BEHIND" :> "behind")
SuggestionTypeValues == ("COMMAND_NEXT" :> "command_next") @@ ("FILE_RELATED" :> "file_related")
UrgencyValues == ("HIGH" :> "high") @@ ("MEDIUM" :> "medium") @@ ("LOW" :> "low")

\* member.value and Enum(value)
enum_value(values, member) == values[member]
enum_member(values, value) == CHOOSE member \in DOMAIN values : values[member] = value

\* datetime.isoformat() leaves the microseconds out when they are zero;
\* datetime.fromisoformat() reads both forms.
datetime_isoformat(moment) ==
    IF moment.microsecond = 0
    THEN <<moment.day, "T", moment.second>>
    ELSE <<moment.day, "T", moment.second, ".", moment.microsecond>>
datetime_fromisoformat(text) ==
    [day |-> text[1], second |-> text[3],
     microsecond |-> IF Len(text) > 3 THEN text[5] ELSE 0]

\* date.isoformat() and date.fromisoformat()
date_isoformat(day) == <<"date", day.day>>
date_fromisoformat(text) == [day |-> text[2]]

DatetimeSamples ==
    {[day |-> 1, second |-> 5, microsecond |-> 0],
     [day |-> 2, second |-> 0, microsecond |-> 7]}

\* WeeklySnapshot.to_dict / from_dict
weekly_snapshot_to_dict(self) ==
    [period_start |-> date_isoformat(self.period_start),
     period_end |-> date_isoformat(self.period_end),
     total_events |-> self.total_events,
     productivity_score |-> self.productivity_score,
     strategic_alignment_avg |-> self.strategic_alignment_avg,
     top_patterns |-> self.top_patterns,
     anomalies_detected |-> self.anomalies_detected,
     pattern_diversity |-> self.pattern_diversity,
     success_signal_rate |-> self.success_signal_rate,
     active_hours |-> self.active_hours]
weekly_snapshot_from_dict(data) ==
    [period_start |-> date_fromisoformat(data.period_start),
     period_end |-> date_fromisoformat(data.period_end),
     total_events |-> data.total_events,
     productivity_score |-> data.productivity_score,
     strategic_alignment_avg |-> data.strategic_alignment_avg,
     top_patterns |-> data.top_patterns,
     anomalies_detected |-> data.anomalies_detected,
     pattern_diversity |-> get(data, "pattern_diversity", 0),
     success_signal_rate |-> get(data, "success_signal_rate", 0),
     active_hours |-> get(data, "active_hours", 0)]

\* TrendMetric.to_dict / from_dict
trend_metric_to_dict(self) ==
    [metric_name |-> self.metric_name,
     current_value |-> self.current_value,
     previous_value |-> self.previous_value,
     change_percent |-> self.change_percent,
     trend_direction |-> enum_value(TrendDirectionValues, self.trend_direction),
     significance |-> enum_value(TrendSignificanceValues, self.significance),
     z_score |-> self.z_score,
     data_points |-> self.data_points]
trend_metric_from_dict(data) ==
    [metric_name |-> data.metric_name,
     current_value |-> data.current_value,
     previous_value |-> data.previous_value,
     change_percent |-> data.change_percent,
     trend_direction |-> enum_member(TrendDirectionValues, data.trend_direction),
     significance |-> enum_member(TrendSignificanceValues, data.significance),
     z_score |-> get(data, "z_score", 0),
     data_points |-> get(data, "data_points", 1)]

\* ExecutiveAlert.to_dict / from_dict
executive_alert_to_dict(self) ==
    [alert_id |-> self.alert_id,
     severity |-> enum_value(AlertSeverityValues, self.severity),
     category |-> enum_value(AlertCategoryValues, self.category),
     title |-> self.title,
     description |-> self.description,
     data_evidence |-> self.data_evidence,
     suggested_actions |-> self.suggested_actions,
     created_at |-> datetime_isoformat(self.created_at),
     acknowledged |-> self.acknowledged,
     threshold_triggered |-> self.threshold_triggered]
executive_alert_from_dict(data) ==
    [alert_id |-> data.alert_id,
     severity |-> enum_member(AlertSeverityValues, data.severity),
     category |-> enum_member(AlertCategoryValues, data.category),
     title |-> data.title,
     description |-> data.description,
     data_evidence |-> data.data_evidence,
     suggested_actions |-> data.suggested_actions,
     created_at |-> datetime_fromisoformat(data.created_at),
     acknowledged |-> get(data, "acknowledged", FALSE),
     threshold_triggered |-> get(data, "threshold_triggered", None)]

\* GoalCorrelation.to_dict / from_dict
goal_correlation_to_dict(self) ==
    [okr_id |-> self.okr_id,
     okr_title |-> self.okr_title,
     aligned_patterns |-> self.aligned_patterns,
     alignment_score |-> self.alignment_score,
     progress_indicator |-> enum_value(ProgressIndicatorValues, self.progress_indicator),
     recommendations |-> self.recommendations,
     evidence_count |-> self.evidence_count,
     last_activity |-> IF self.last_activity # None
                       THEN Some(datetime_isoformat(self.last_activity[1]))
                       ELSE None]
goal_correlation_from_dict(data) ==
    [okr_id |-> data.okr_id,
     okr_title |-> data.okr_title,
     aligned_patterns |-> data.aligned_patterns,
     alignment_score |-> data.alignment_score,
     progress_indicator |-> enum_member(ProgressIndicatorValues, data.progress_indicator),
     recommendations |-> data.recommendations,
     evidence_count |-> get(data, "evidence_count", 0),
     last_activity |-> IF get(data, "last_activity", None) # None
                       THEN Some(datetime_fromisoformat(data.last_activity[1]))
                       ELSE None]

\* ExecutiveInsightReport.to_dict / from_dict
executive_insight_report_to_dict(self) ==
    [generated_at |-> datetime_isoformat(self.generated_at),
     weekly_snapshot |-> weekly_snapshot_to_dict(self.weekly_snapshot),
     trend_metrics |-> [i \in 1..Len(self.trend_metrics) |->
                           trend_metric_to_dict(self.trend_metrics[i])],
     alerts |-> [i \in 1..Len(self.alerts) |-> executive_alert_to_dict(self.alerts[i])],
     goal_correlations |-> [i \in 1..Len(self.goal_correlations) |->
                               goal_correlation_to_dict(self.goal_correlations[i])],
     summary |-> self.summary,
     metadata |-> self.metadata]
executive_insight_report_from_dict(data) ==
    [generated_at |-> datetime_fromisoformat(data.generated_at),
     weekly_snapshot |-> weekly_snapshot_from_dict(data.weekly_snapshot),
     trend_metrics |-> [i \in 1..Len(data.trend_metrics) |->
                           trend_metric_from_dict(data.trend_metrics[i])],
     alerts |-> [i \in 1..Len(data.alerts) |-> executive_alert_from_dict(data.alerts[i])],
     goal_correlations |-> [i \in 1..Len(data.goal_correlations) |->
                               goal_correlation_from_dict(data.goal_correlations[i])],
     summary |-> data.summary,
     metadata |-> get(data, "metadata", <<>>)]

\* ActionSuggestion.to_dict
action_suggestion_to_dict(self) ==
    [suggestion_id |-> self.suggestion_id,
     suggestion_type |-> enum_value(SuggestionTypeValues, self.suggestion_type),
     description |-> self.description,
     command |-> self.command,
     files |-> self.files,
     confidence |-> self.confidence,
     urgency |-> enum_value(UrgencyValues, self.urgency),
     rationale |-> self.rationale,
     context_data |-> self.context_data,
     created_at |-> datetime_isoformat(self.created_at)]

\* PredictionContext.to_dict: recent_activity is not written.
prediction_context_to_dict(self) ==
    [recent_commands |-> self.recent_commands,
     active_file_clusters |-> self.active_file_clusters,
     time_of_day |-> self.time_of_day,
     day_of_week |-> self.day_of_week,
     session_phase |-> self.session_phase,
     current_goal |-> self.current_goal,
     workspace_root |-> self.workspace_root]

\* WorkflowPrediction.to_dict
workflow_prediction_to_dict(self) ==
    [workflow_name |-> self.workflow_name,
     completed_steps |-> self.completed_steps,
     predicted_steps |-> self.predicted_steps,
     confidence |-> self.confidence,
     estimated_remaining_steps |-> self.estimated_remaining_steps,
     common_patterns |-> self.common_patterns]

\* TimingSuggestion.to_dict
timing_suggestion_to_dict(self) ==
    [activity_type |-> self.activity_type,
     current_hour |-> self.current_hour,
     optimal_hours |-> self.optimal_hours,
     current_score |-> self.current_score,
     rationale |-> self.rationale,
     peak_productivity_hours |-> self.peak_productivity_hours,
     average_success_rate |-> self.average_success_rate]

\* SessionStartRecommendation.to_dict
session_start_to_dict(self) ==
    [incomplete_workflows |-> [i \in 1..Len(self.incomplete_workflows) |->
                                  workflow_prediction_to_dict(self.incomplete_workflows[i])],
     active_file_clusters |-> self.active_file_clusters,
     high_value_suggestions |-> [i \in 1..Len(self.high_value_suggestions) |->
                                    action_suggestion_to_dict(self.high_value_suggestions[i])],
     time_based_context |-> IF self.time_based_context # None
                            THEN Some(timing_suggestion_to_dict(self.time_based_context[1]))
                            ELSE None,
     session_goal_suggestions |-> self.session_goal_suggestions]

\* PredictionReport.to_dict
prediction_report_to_dict(self) ==
    [generated_at |-> datetime_isoformat(self.generated_at),
     context |-> IF self.context # None
                 THEN Some(prediction_context_to_dict(self.context[1])) ELSE None,
     suggestions |-> [i \in 1..Len(self.suggestions) |->
                         action_suggestion_to_dict(self.suggestions[i])],
     workflow_prediction |-> IF self.workflow_prediction # None
                             THEN Some(workflow_prediction_to_dict(self.workflow_prediction[1]))
                             ELSE None,
     timing_suggestion |-> IF self.timing_suggestion # None
                           THEN Some(timing_suggestion_to_dict(self.timing_suggestion[1]))
                           ELSE None,
     session_start |-> IF self.session_start # None
                       THEN Some(session_start_to_dict(self.session_start[1]))
                       ELSE None,
     metadata |-> self.metadata]

\* The report classes, the ones that define to_dict and the ones that define
\* from_dict.
ReportTypes == {"ExecutiveInsightReport", "PredictionReport", "PatternReport", "InsightReport"}
ReportTypesWithToDict == {"ExecutiveInsightReport", "PredictionReport"}
ReportTypesWithFromDict == {"ExecutiveInsightReport"}

\* Sample values of the nested types.
WeeklySnapshotSample ==
    [period_start |-> [day |-> 1], period_end |-> [day |-> 7], total_events |-> 40,
     productivity_score |-> 7, strategic_alignment_avg |-> 6, top_patterns |-> <<"a b">>,
     anomalies_detected |-> 1, pattern_diversity |-> 5, success_signal_rate |-> 8,
     active_hours |-> 12]
TrendMetricSamples ==
    {[metric_name |-> "productivity_score", current_value |-> 5, previous_value |-> 8,
      change_percent |-> -37, trend_direction |-> "DOWN", significance |-> "SIGNIFICANT",
      z_score |-> 0, data_points |-> 1],
     [metric_name |-> "strategic_alignment", current_value |-> 6, previous_value |-> 6,
      change_percent |-> 0, trend_direction |-> "STABLE", significance |-> "NOTABLE",
      z_score |-> 2, data_points |-> 4]}
ExecutiveAlertSamples ==
    {[alert_id |-> "alert_1", severity |-> "CRITICAL", category |-> "PRODUCTIVITY",
      title |-> "drop", description |-> "d", data_evidence |-> <<>>,
      suggested_actions |-> <<"review">>, created_at |-> moment, acknowledged |-> ack,
      threshold_triggered |-> threshold] :
        moment \in DatetimeSamples, ack \in BOOLEAN, threshold \in {None, Some(20)}}
GoalCorrelationSamples ==
    {[okr_id |-> "obj1", okr_title |-> "t", aligned_patterns |-> <<"file:x">>,
      alignment_score |-> 3, progress_indicator |-> "BEHIND", recommendations |-> <<>>,
      evidence_count |-> 1, last_activity |-> activity] :
        activity \in {None} \cup {Some(moment) : moment \in DatetimeSamples}}

ExecutiveInsightReportSamples ==
    [report_type : {"ExecutiveInsightReport"},
     generated_at : DatetimeSamples,
     weekly_snapshot : {WeeklySnapshotSample},
     trend_metrics : ListsUpTo(TrendMetricSamples, MaxReportItems),
     alerts : ListsUpTo(ExecutiveAlertSamples, MaxReportItems),
     goal_correlations : ListsUpTo(GoalCorrelationSamples, MaxReportItems),
     summary : {"briefing"},
     metadata : {<<>>}]

ActionSuggestionSamples ==
    {[suggestion_id |-> "s1", suggestion_type |-> "COMMAND_NEXT", description |-> "Run: b",
      command |-> Some("b"), files |-> <<>>, confidence |-> 8, urgency |-> "MEDIUM",
      rationale |-> None, context_data |-> <<>>,
      created_at |-> [day |-> 1, second |-> 5, microsecond |-> 0]]}
PredictionContextSample ==
    [recent_commands |-> <<"a">>, active_file_clusters |-> <<<<"f1">>>>, time_of_day |-> 9,
     day_of_week |-> 1, recent_activity |-> <<"event">>, session_phase |-> "start",
     current_goal |-> None, workspace_root |-> "w"]
WorkflowPredictionSample ==
    [workflow_name |-> "ship", completed_steps |-> <<"a">>, predicted_steps |-> <<"b">>,
     confidence |-> 4, estimated_remaining_steps |-> 1, common_patterns |-> <<>>]
TimingSuggestionSample ==
    [activity_type |-> "general", current_hour |-> 9, optimal_hours |-> <<9, 10>>,
     current_score |-> 8, rationale |-> "r", peak_productivity_hours |-> <<9>>,
     average_success_rate |-> 8]

PredictionReportSamples ==
    [report_type : {"PredictionReport"},
     generated_at : DatetimeSamples,
     context : {None, Some(PredictionContextSample)},
     suggestions : ListsUpTo(ActionSuggestionSamples, MaxReportItems),
     workflow_prediction : {None, Some(WorkflowPredictionSample)},
     timing_suggestion : {None, Some(TimingSuggestionSample)},
     session_start : {None},
     metadata : {<<>>}]

PatternReportSamples ==
    [report_type : {"PatternReport"},
     command_sequences : {<<>>, <<[sequence |-> <<"a", "b">>, frequency |-> 3]>>},
     file_clusters : {<<>>},
     time_patterns : {None},
     success_correlations : {<<>>},
     analysis_timestamp : {<<1, "T", 5>>},
     confidence : {5}]

InsightReportSamples ==
    [report_type : {"InsightReport"},
     statistical_patterns : {<<>>},
     formatted_summary : {"summary"},
     claude_code_prompt : {"prompt"},
     generated_at : {<<1, "T", 5>>}]

ReportValueSamples ==
    ExecutiveInsightReportSamples \cup PredictionReportSamples
        \cup PatternReportSamples \cup InsightReportSamples

\* The fields of a report value, without the name of its class.
fields_of(report, data) == [key \in DOMAIN data |-> data[key]] @@ [report_type |-> report.report_type]

\* report.to_dict(): the dictionary, or AttributeError for a class without
\* to_dict.
report_to_dict(report) ==
    IF report.report_type \notin ReportTypesWithToDict
    THEN [raised |-> "AttributeError", dict |-> None]
    ELSE IF report.report_type = "ExecutiveInsightReport"
    THEN [raised |-> "", dict |-> Some(executive_insight_report_to_dict(report))]
    ELSE [raised |-> "", dict |-> Some(prediction_report_to_dict(report))]

\* type(report).from_dict(data): the value, or AttributeError for a class
\* without from_dict.
report_from_dict(report_type, data) ==
    IF report_type \notin ReportTypesWithFromDict
    THEN [raised |-> "AttributeError", value |-> None]
    ELSE [raised |-> "",
          value |-> Some(fields_of([report_type |-> report_type],
                                   executive_insight_report_from_dict(data)))]

\* to_dict followed by from_dict of the same class.
round_trip_of(report) ==
    IF report_to_dict(report).raised # ""
    THEN [raised |-> report_to_dict(report).raised, step |-> "to_dict", value |-> None]
    ELSE LET back == report_from_dict(report.report_type, report_to_dict(report).dict[1])
         IN [raised |-> back.raised, step |-> "from_dict", value |-> back.value]

InitReports ==
    /\ report_value \in ReportValueSamples
    /\ round_trip = None

\* type(report).from_dict(report.to_dict())
RoundTrip ==
    /\ round_trip = None
    /\ round_trip' = Some(round_trip_of(report_value))
    /\ UNCHANGED report_value
    /\ UNCHANGED <<coreVars, analyzerVars, predictorVars, recommenderVars, helperVars, runtimeVars>>

(***************************************************************************)
(* FileClustersObserver (file_clusters_observer.py) and the file clusters  *)
(* PatternAnalyzer.analyze_file_relationships builds from what it records  *)
(***************************************************************************)
MaxFileEdits == 3
MaxWallTicks == 3
\* The cluster_timeout the observers are constructed with, in seconds (the
\* default is 300).
ClusterTimeout == 1

\* The sessions, one observer each, and the files edited.
ObserverSessions == {"s1", "s2"}
EditedFiles == {File("src", "main"), File("src", "util")}

\* f"cluster_{now.strftime('%Y%m%d_%H%M%S')}": the name holds the time cut
\* to the second, and nothing else.
cluster_name(at) == <<"cluster", at \div TicksPerSecond>>

\* FileClustersObserver.__init__
file_clusters_observer_init(session_id, cluster_timeout) ==
    [session_id |-> session_id, cluster_timeout |-> cluster_timeout,
     current_cluster |-> None, last_edit_time |-> None]

\* _get_or_create_cluster_id at time `at`: a new cluster when there is none
\* or when more than cluster_timeout seconds passed since the last edit.
get_or_create_cluster_id(self, at) ==
    IF self.current_cluster = None
    THEN [self EXCEPT !.current_cluster = Some(cluster_name(at)),
                      !.last_edit_time = Some(at)]
    ELSE IF /\ self.last_edit_time # None
            /\ at - self.last_edit_time[1] > self.cluster_timeout * TicksPerSecond
         THEN [self EXCEPT !.current_cluster = Some(cluster_name(at)),
                           !.last_edit_time = Some(at)]
         ELSE [self EXCEPT !.last_edit_time = Some(at)]

\* The query of analyze_file_relationships: one row for each cluster_id and
\* file_path with the number of edits, ordered by cluster_id and then by
\* descending edit count.  The session of an edit takes no part in it.
file_cluster_query(events) ==
    TheOnly({
        [place \in 1..Len(counted) |->
            counted[CHOOSE g \in 1..Len(counted) :
                place = 1 + Cardinality({h \in 1..Len(counted) :
                    \/ counted[h].cluster_id[2] < counted[g].cluster_id[2]
                    \/ /\ counted[h].cluster_id = counted[g].cluster_id
                       /\ \/ counted[h].edit_count > counted[g].edit_count
                          \/ (counted[h].edit_count = counted[g].edit_count /\ h < g)})]] :
        counted \in {
            [g \in 1..Len(groups) |->
                [file_path |-> groups[g][2], cluster_id |-> groups[g][1],
                 edit_count |-> Cardinality({i \in 1..Len(events) :
                     <<events[i].cluster_id, events[i].file_path>> = groups[g]})]] :
            groups \in {FirstSeen([i \in 1..Len(events) |->
                            <<events[i].cluster_id, events[i].file_path>>])}}})

\* capture and record of one file edit: the event holds the file, the
\* cluster_id the observer hands out and the session of the observer.
CaptureFileEdit(session_id, file_path) ==
    /\ clusters_pc = "observing"
    /\ Len(file_cluster_events) < MaxFileEdits
    /\ LET observer == get_or_create_cluster_id(cluster_observers[session_id], wall_ticks)
       IN /\ cluster_observers' = [cluster_observers EXCEPT ![session_id] = observer]
          /\ file_cluster_events' = Append(file_cluster_events,
                [session_id |-> session_id, file_path |-> file_path,
                 cluster_id |-> observer.current_cluster[1]])
    /\ UNCHANGED <<wall_ticks, session_clusters, clusters_pc>>
    /\ UNCHANGED <<coreVars, analyzerVars, predictorVars, recommenderVars, helperVars,
                   reportVars, alertStoreVars, storeTaskVars, managerVars>>

\* reset_cluster
ResetCluster(session_id) ==
    /\ clusters_pc = "observing"
    /\ cluster_observers[session_id].current_cluster # None
    /\ cluster_observers' = [cluster_observers EXCEPT
            ![session_id].current_cluster = None,
            ![session_id].last_edit_time = None]
    /\ UNCHANGED <<wall_ticks, file_cluster_events, session_clusters, clusters_pc>>
    /\ UNCHANGED <<coreVars, analyzerVars, predictorVars, recommenderVars, helperVars,
                   reportVars, alertStoreVars, storeTaskVars, managerVars>>

\* Time passes.
WallClockTick ==
    /\ clusters_pc = "observing"
    /\ wall_ticks < MaxWallTicks
    /\ wall_ticks' = wall_ticks + 1
    /\ UNCHANGED <<cluster_observers, file_cluster_events, session_clusters, clusters_pc>>
    /\ UNCHANGED <<coreVars, analyzerVars, predictorVars, recommenderVars, helperVars,
                   reportVars, alertStoreVars, storeTaskVars, managerVars>>

\* analyze_file_relationships over the edits recorded, by an analyzer that
\* keeps every cluster of at least two files.
AnalyzeFileRelationships ==
    /\ clusters_pc = "observing"
    /\ session_clusters' = analyze_file_relationships(
            [file_clusters |-> file_cluster_query(file_cluster_events)],
            pattern_analyzer_init([k \in {"file_similarity_threshold"} |-> 1]), {})
    /\ clusters_pc' = "analyzed"
    /\ UNCHANGED <<cluster_observers, wall_ticks, file_cluster_events>>
    /\ UNCHANGED <<coreVars, analyzerVars, predictorVars, recommenderVars, helperVars,
                   reportVars, alertStoreVars, storeTaskVars, managerVars>>

InitClusters ==
    /\ cluster_observers = [session_id \in ObserverSessions |->
            file_clusters_observer_init(session_id, ClusterTimeout)]
    /\ wall_ticks = 0
    /\ file_cluster_events = <<>>
    /\ session_clusters = <<>>
    /\ clusters_pc = "observing"

(***************************************************************************)
(* PatternStore: executive_alerts                                          *)
(***************************************************************************)
\* Default of the limit parameter of get_active_alerts.
ACTIVE_ALERTS_LIMIT_DEFAULT == 10

\* The names pattern_store.py imports from executive_models.
PatternStoreImports ==
    {"WeeklySnapshot", "TrendMetric", "ExecutiveAlert", "GoalCorrelation", "AlertSeverity",
     "TrendDirection", "TrendSignificance", "ProgressIndicator"}

\* Column values: NULL, a REAL and a TEXT.
Null == <<>>
Real(x) == <<"real", x>>
Text(t) == <<"text", t>>

AlertIds == {"a1", "a2"}

\* The alerts handed to store_executive_alert.
ExecutiveAlertInputs ==
    [alert_id : AlertIds,
     severity : {"CRITICAL", "WARNING"},
     category : {"PRODUCTIVITY"},
     threshold_triggered : {None, Some(20)},
     acknowledged : BOOLEAN]

\* store_executive_alert: the row INSERT OR REPLACE writes; created_at is
\* left to its default CURRENT_TIMESTAMP, a text.
executive_alert_row(alert) ==
    [alert_id |-> alert.alert_id,
     severity |-> enum_value(AlertSeverityValues, alert.severity),
     category |-> enum_value(AlertCategoryValues, alert.category),
     threshold_triggered |-> IF alert.threshold_triggered = None THEN Null
                             ELSE Real(alert.threshold_triggered[1]),
     created_at |-> Text("now"),
     acknowledged |-> alert.acknowledged]

\* The SELECT of get_active_alerts: the unacknowledged rows, of one severity
\* when one is given, newest first, at most `limit` of them; the columns of
\* a row in the order of the SELECT list.
active_alert_rows(rows, severity, limit) ==
    LET chosen == SelectSeq(rows,
            LAMBDA r : /\ ~r.acknowledged
                       /\ severity # None
                            => r.severity = enum_value(AlertSeverityValues, severity[1]))
    IN [i \in 1..(IF Len(chosen) < limit THEN Len(chosen) ELSE limit) |->
            LET r == chosen[Len(chosen) + 1 - i]
            IN <<r.alert_id, r.severity, r.category, "title", "description",
                 "data_evidence", "suggested_actions", r.threshold_triggered,
                 r.created_at, r.acknowledged>>]

\* The loop body of get_active_alerts (row[0] is row[1] here): the names it
\* uses have to be bound in the module, created_at is read from row[7] with
\* datetime.fromisoformat, which takes a text only, and threshold_triggered
\* from row[8].  "raised" stands for the exception.
alert_of_row(row) ==
    IF ~({"ExecutiveAlert", "AlertSeverity", "AlertCategory"} \subseteq PatternStoreImports)
    THEN "raised"
    ELSE IF row[8] = Null \/ row[8][1] # "text" THEN "raised"
    ELSE [alert_id |-> row[1],
          severity |-> enum_member(AlertSeverityValues, row[2]),
          category |-> enum_member(AlertCategoryValues, row[3]),
          created_at |-> row[8],
          threshold_triggered |-> row[9],
          acknowledged |-> row[10]]

\* get_active_alerts(severity, limit): an exception in the loop ends in an
\* empty list.
get_active_alerts(rows, severity, limit) ==
    TheOnly({IF \E i \in 1..Len(alerts) : alerts[i] = "raised" THEN <<>> ELSE alerts :
             alerts \in {[i \in 1..Len(selected) |-> alert_of_row(selected[i])] :
                         selected \in {active_alert_rows(rows, severity, limit)}}})

\* PatternStore.store_executive_alert(alert): INSERT OR REPLACE on the
\* unique alert_id.
StoreExecutiveAlert(alert) ==
    /\ executive_alerts' =
           Append(SelectSeq(executive_alerts, LAMBDA r : r.alert_id # alert.alert_id),
                  executive_alert_row(alert))
    /\ alert_store_call' = [op |-> "store_executive_alert", alert |-> alert]
    /\ UNCHANGED active_alerts
    /\ UNCHANGED <<coreVars, analyzerVars, predictorVars, recommenderVars, helperVars,
                   reportVars, clusterVars, storeTaskVars, managerVars>>

\* PatternStore.get_active_alerts(severity, limit)
GetActiveAlerts(severity, limit) ==
    /\ active_alerts' = get_active_alerts(executive_alerts, severity, limit)
    /\ alert_store_call' = [op |-> "get_active_alerts", severity |-> severity,
                            limit |-> limit]
    /\ UNCHANGED executive_alerts
    /\ UNCHANGED <<coreVars, analyzerVars, predictorVars, recommenderVars, helperVars,
                   reportVars, clusterVars, storeTaskVars, managerVars>>

InitAlertStore ==
    /\ executive_alerts = <<>>
    /\ active_alerts = <<>>
    /\ alert_store_call = [op |-> "none"]

(***************************************************************************)
(* PatternStore: store_patterns calls that run concurrently, each on its   *)
(* own connection to the database file                                     *)
(***************************************************************************)
StoreTasks == {"t1", "t2"}

\* The keys of the reports stored: each report holds one command sequence.
StoredKeys == {"a->b", "c->d"}

\* The database file before the calls: missing, created before the
\* executive tables were introduced, or complete; with its tables the file
\* holds no row or one row of the key c->d.
StoreDbSamples ==
    {[file_exists |-> FALSE, pattern_tables |-> FALSE, executive_tables |-> FALSE,
      pattern_history |-> <<>>, write_lock |-> "none"]}
    \cup [file_exists : {TRUE}, pattern_tables : {TRUE}, executive_tables : BOOLEAN,
          pattern_history : {<<>>, <<[pattern_type |-> "command_sequence",
                                      pattern_key |-> "c->d", occurrence_count |-> 1]>>},
          write_lock : {"none"}]

StoreTask(pc, pattern_key, pending, result) ==
    [pc |-> pc, pattern_key |-> pattern_key, pending |-> pending, result |-> result]

\* Another connection holds the write lock of the database file.
LockedByOther(task) == store_db.write_lock \notin {"none", task}

\* initialize up to its first await: nothing to do for an initialized
\* store, a migration for a file that exists, the schema for a missing one.
StoreInitialize(task) ==
    /\ store_tasks[task].pc = "start"
    /\ store_tasks' = [store_tasks EXCEPT ![task].pc =
            IF store_initialized THEN "connect"
            ELSE IF store_db.file_exists THEN "ensure"
            ELSE "create"]
    /\ UNCHANGED <<store_db, store_initialized>>
    /\ UNCHANGED <<coreVars, analyzerVars, predictorVars, recommenderVars, helperVars,
                   reportVars, clusterVars, alertStoreVars, managerVars>>

\* initialize, aiosqlite.connect on the missing file: sqlite creates it.
CreateDatabaseFile(task) ==
    /\ store_tasks[task].pc = "create"
    /\ store_db' = [store_db EXCEPT !.file_exists = TRUE]
    /\ store_tasks' = [store_tasks EXCEPT ![task].pc = "schema"]
    /\ UNCHANGED store_initialized
    /\ UNCHANGED <<coreVars, analyzerVars, predictorVars, recommenderVars, helperVars,
                   reportVars, clusterVars, alertStoreVars, managerVars>>

\* initialize, executescript(SCHEMA_SQL): CREATE TABLE IF NOT EXISTS
\* pattern_history and the other pattern tables.
CreatePatternTables(task) ==
    /\ store_tasks[task].pc = "schema"
    /\ ~LockedByOther(task)
    /\ store_db' = [store_db EXCEPT !.pattern_tables = TRUE]
    /\ store_tasks' = [store_tasks EXCEPT ![task].pc = "executive_schema"]
    /\ UNCHANGED store_initialized
    /\ UNCHANGED <<coreVars, analyzerVars, predictorVars, recommenderVars, helperVars,
                   reportVars, clusterVars, alertStoreVars, managerVars>>

\* initialize, executescript(EXECUTIVE_SCHEMA_SQL), the commit, and
\* _initialized = True.
CreateExecutiveTables(task) ==
    /\ store_tasks[task].pc = "executive_schema"
    /\ ~LockedByOther(task)
    /\ store_db' = [store_db EXCEPT !.executive_tables = TRUE]
    /\ store_initialized' = TRUE
    /\ store_tasks' = [store_tasks EXCEPT ![task].pc = "connect"]
    /\ UNCHANGED <<coreVars, analyzerVars, predictorVars, recommenderVars, helperVars,
                   reportVars, clusterVars, alertStoreVars, managerVars>>

\* initialize on a file that exists: _ensure_executive_tables adds the
\* executive tables when weekly_snapshots is missing, and _initialized = True.
EnsureExecutiveTables(task) ==
    /\ store_tasks[task].pc = "ensure"
    /\ store_db.executive_tables \/ ~LockedByOther(task)
    /\ store_db' = [store_db EXCEPT !.executive_tables = TRUE]
    /\ store_initialized' = TRUE
    /\ store_tasks' = [store_tasks EXCEPT ![task].pc = "connect"]
    /\ UNCHANGED <<coreVars, analyzerVars, predictorVars, recommenderVars, helperVars,
                   reportVars, clusterVars, alertStoreVars, managerVars>>

\* store_patterns, the connection and the UPDATE of _upsert_pattern: without
\* the table the statement raises and store_patterns returns False; with it
\* the statement takes the write lock, which the connection holds until its
\* commit, and increments the row of the key when there is one.
UpdatePattern(task) ==
    /\ store_tasks[task].pc = "connect"
    /\ IF ~store_db.pattern_tables
       THEN /\ store_tasks' = [store_tasks EXCEPT ![task].pc = "done",
                                                  ![task].result = "False"]
            /\ UNCHANGED store_db
       ELSE /\ ~LockedByOther(task)
            /\ store_db' = [store_db EXCEPT !.write_lock = task]
            /\ LET key == store_tasks[task].pattern_key
                   rowcount == Cardinality(RowsOfKey(store_db.pattern_history, key))
               IN store_tasks' = [store_tasks EXCEPT
                      ![task].pc = IF rowcount = 0 THEN "insert" ELSE "commit",
                      ![task].pending =
                          IF rowcount = 0 THEN store_db.pattern_history
                          ELSE upsert_pattern(store_db.pattern_history,
                                              "command_sequence", key)]
    /\ UNCHANGED store_initialized
    /\ UNCHANGED <<coreVars, analyzerVars, predictorVars, recommenderVars, helperVars,
                   reportVars, clusterVars, alertStoreVars, managerVars>>

\* _upsert_pattern, the INSERT after an UPDATE that touched no row.  The
\* connection holds the write lock since its UPDATE, so no row of the key
\* was committed in between and the unique index on pattern_key lets the
\* row in.
InsertPattern(task) ==
    /\ store_tasks[task].pc = "insert"
    /\ store_tasks' = [store_tasks EXCEPT
           ![task].pc = "commit",
           ![task].pending = upsert_pattern(store_tasks[task].pending,
                                            "command_sequence",
                                            store_tasks[task].pattern_key)]
    /\ UNCHANGED <<store_db, store_initialized>>
    /\ UNCHANGED <<coreVars, analyzerVars, predictorVars, recommenderVars, helperVars,
                   reportVars, clusterVars, alertStoreVars, managerVars>>

\* store_patterns, db.commit() and return True.
CommitPatterns(task) ==
    /\ store_tasks[task].pc = "commit"
    /\ store_db' = [store_db EXCEPT !.pattern_history = store_tasks[task].pending,
                                    !.write_lock = "none"]
    /\ store_tasks' = [store_tasks EXCEPT ![task].pc = "done", ![task].result = "True"]
    /\ UNCHANGED store_initialized
    /\ UNCHANGED <<coreVars, analyzerVars, predictorVars, recommenderVars, helperVars,
                   reportVars, clusterVars, alertStoreVars, managerVars>>

\* The UPDATE waited for the write lock longer than the timeout of the
\* connection: sqlite raises "database is locked" and store_patterns
\* returns False.
BusyTimeout(task) ==
    /\ store_tasks[task].pc = "connect"
    /\ store_db.pattern_tables
    /\ LockedByOther(task)
    /\ store_tasks' = [store_tasks EXCEPT ![task].pc = "done", ![task].result = "False"]
    /\ UNCHANGED <<store_db, store_initialized>>
    /\ UNCHANGED <<coreVars, analyzerVars, predictorVars, recommenderVars, helperVars,
                   reportVars, clusterVars, alertStoreVars, managerVars>>

InitStoreTasks ==
    /\ store_db \in StoreDbSamples
    /\ store_initialized = FALSE
    /\ store_tasks \in [StoreTasks -> {StoreTask("start", key, <<>>, "none") :
                                          key \in StoredKeys}]

(***************************************************************************)
(* ObserverManager: tasks that share the singleton                         *)
(***************************************************************************)
ManagerTasks == {"t1", "t2"}

\* The observers _collect_data knows.
ObserverNames == {"command_usage", "file_clusters", "time_patterns", "success_signals"}

\* EventOrchestrator.__init__: no observers yet.
event_orchestrator_init == [observers |-> {}]

\* _collect_data after _init_database: one observer for every enabled name.
collect_data(orchestrator, observers) == [orchestrator EXCEPT !.observers = observers]

\* EventOrchestrator.get_observer: self.observers.get(observer_name)
get_observer(orchestrator, observer_name) ==
    IF observer_name \in orchestrator.observers THEN Some(observer_name) ELSE None

ManagerTask(pc, asked, got) == [pc |-> pc, asked |-> asked, got |-> got]

\* The names event_orchestrator.py takes from typing; the annotation of
\* _get_recent_events also names List.
EventOrchestratorImports == {"Dict", "Any", "Optional"}

\* "from .event_orchestrator import EventOrchestrator" executes the class
\* body: an interpreter that evaluates annotations there raises NameError
\* for a name that is not bound.
import_event_orchestrator(eager) ==
    IF eager /\ "List" \notin EventOrchestratorImports THEN "raised" ELSE "imported"

\* ObserverManager.initialize up to its first suspension: it returns at once
\* when _orchestrator is set; otherwise it imports EventOrchestrator, sets
\* _orchestrator and awaits _collect_data, which runs to its end without
\* suspension when the events database exists and awaits the creation of
\* the database when it does not.
ManagerInitialize(task) ==
    /\ manager_tasks[task].pc = "start"
    /\ IF manager_orchestrator # None
       THEN /\ manager_tasks' = [manager_tasks EXCEPT ![task].pc = "initialized"]
            /\ UNCHANGED manager_orchestrator
       ELSE IF import_event_orchestrator(eager_annotations) = "raised"
       THEN /\ manager_tasks' = [manager_tasks EXCEPT ![task].pc = "raised"]
            /\ UNCHANGED manager_orchestrator
       ELSE IF events_db_exists
       THEN /\ manager_orchestrator' =
                   Some(collect_data(event_orchestrator_init, enabled_observers))
            /\ manager_tasks' = [manager_tasks EXCEPT ![task].pc = "initialized"]
       ELSE /\ manager_orchestrator' = Some(event_orchestrator_init)
            /\ manager_tasks' = [manager_tasks EXCEPT ![task].pc = "init_database"]
    /\ UNCHANGED <<events_db_exists, enabled_observers, eager_annotations>>
    /\ UNCHANGED <<coreVars, analyzerVars, predictorVars, recommenderVars, helperVars,
                   reportVars, clusterVars, alertStoreVars, storeTaskVars>>

\* _init_database resumes: the schema is written, _collect_data creates the
\* observers, and initialize returns.
InitDatabase(task) ==
    /\ manager_tasks[task].pc = "init_database"
    /\ events_db_exists' = TRUE
    /\ manager_orchestrator' =
           Some(collect_data(manager_orchestrator[1], enabled_observers))
    /\ manager_tasks' = [manager_tasks EXCEPT ![task].pc = "initialized"]
    /\ UNCHANGED <<enabled_observers, eager_annotations>>
    /\ UNCHANGED <<coreVars, analyzerVars, predictorVars, recommenderVars, helperVars,
                   reportVars, clusterVars, alertStoreVars, storeTaskVars>>

\* ObserverManager.get_observer(observer_name), called by a task whose
\* initialize has returned.
GetObserver(task, observer_name) ==
    /\ manager_tasks[task].pc = "initialized"
    /\ manager_orchestrator # None
    /\ manager_tasks' = [manager_tasks EXCEPT ![task] =
           ManagerTask("got", observer_name,
                       get_observer(manager_orchestrator[1], observer_name))]
    /\ UNCHANGED <<manager_orchestrator, events_db_exists, enabled_observers,
                   eager_annotations>>
    /\ UNCHANGED <<coreVars, analyzerVars, predictorVars, recommenderVars, helperVars,
                   reportVars, clusterVars, alertStoreVars, storeTaskVars>>

InitManager ==
    /\ manager_orchestrator = None
    /\ events_db_exists \in BOOLEAN
    /\ enabled_observers \in SUBSET ObserverNames
    /\ eager_annotations \in BOOLEAN
    /\ manager_tasks = [task \in ManagerTasks |-> ManagerTask("start", "", None)]

(***************************************************************************)
(* Specifications                                                          *)
(***************************************************************************)

\* The states of the components a specification leaves alone.
IdleAlerts ==
    /\ alert_system = alert_system_init([k \in {} |-> 0])
    /\ alert_input = [trend_metrics |-> <<>>, anomalies |-> <<>>,
                      pattern_report |-> [is_none |-> TRUE, command_sequences |-> <<>>]]
    /\ generated_alerts = <<>>
    /\ returned_alerts = <<>>
    /\ alerts_pc = "idle"

IdleTrend ==
    /\ previous_snapshots = <<>>
    /\ current_snapshot = Snapshot(0, 0)
    /\ anomalies = <<>>
    /\ trend_pc = "idle"

IdleSynth ==
    /\ enabled = TRUE
    /\ failing_tasks = {}
    /\ week = 1
    /\ synth = NoRun

IdleAnalyzer ==
    /\ events_db = EventsDb(<<>>, <<>>, <<>>, EmptySuccess)
    /\ analyzer = pattern_analyzer_init([k \in {} |-> 0])
    /\ failing_queries = {}
    /\ sequences_found = <<>>
    /\ analysis_report = NoAnalysis
    /\ analysis_pc = "idle"

\* The stores, the synthesizer, the alert system and the trend analyzer at
\* rest, and the analysis components at rest.
IdleCore ==
    /\ InitStore /\ InitPatterns /\ IdleSynth
    /\ IdleAlerts /\ IdleTrend /\ InitPredictions

IdlePredictor ==
    /\ predictor_db = [command_sequences |-> <<>>, file_co_occurrences |-> <<>>,
                       workflow_patterns |-> <<>>, time_patterns |-> <<>>,
                       available |-> TRUE]
    /\ prediction_context = [recent_commands |-> <<>>, active_file_clusters |-> <<>>]
    /\ predict_args = [max_suggestions |-> 0, min_confidence |-> Frac(0, 10)]
    /\ current_hour = 9
    /\ predicted = <<>>
    /\ predictor_pc = "idle"

IdleRecommender ==
    /\ recommender = goal_recommender_init([k \in {} |-> 0])
    /\ okrs = <<>>
    /\ goal_pattern_report = [file_clusters |-> <<>>, command_sequences |-> <<>>]
    /\ goal_correlations = <<>>
    /\ recommender_pc = "idle"

IdleHelpers ==
    /\ jaccard_sets = <<{}, {}>>
    /\ jaccard_similarity = <<>>

IdleReports ==
    /\ report_value = [report_type |-> "InsightReport", statistical_patterns |-> <<>>,
                       formatted_summary |-> "summary", claude_code_prompt |-> "prompt",
                       generated_at |-> <<1, "T", 5>>]
    /\ round_trip = <<>>

IdleClusters ==
    /\ cluster_observers = [session_id \in {} |-> 0]
    /\ wall_ticks = 0
    /\ file_cluster_events = <<>>
    /\ session_clusters = <<>>
    /\ clusters_pc = "idle"

IdleAlertStore ==
    /\ executive_alerts = <<>>
    /\ active_alerts = <<>>
    /\ alert_store_call = [op |-> "none"]

IdleStoreTasks ==
    /\ store_db = [file_exists |-> FALSE]
    /\ store_initialized = FALSE
    /\ store_tasks = [task \in {} |-> 0]

IdleManager ==
    /\ manager_orchestrator = <<>>
    /\ events_db_exists = FALSE
    /\ enabled_observers = {}
    /\ eager_annotations = FALSE
    /\ manager_tasks = [task \in {} |-> 0]

IdleRuntime == IdleClusters /\ IdleAlertStore /\ IdleStoreTasks /\ IdleManager

IdleLibrary ==
    IdleAnalyzer /\ IdlePredictor /\ IdleRecommender /\ IdleHelpers /\ IdleReports
        /\ IdleRuntime

\* The executive synthesizer over the weekly_snapshots table.
Init ==
    /\ InitStore /\ InitPatterns /\ InitSynth
    /\ IdleAlerts /\ IdleTrend /\ InitPredictions
    /\ IdleLibrary

Next ==
    \/ \E snapshot \in WeeklySnapshotInputs : StoreWeeklySnapshot(snapshot)
    \/ \E metrics \in StoredMetricSamples : GenerateExecutiveReport(metrics)
    \/ NextWeek
    \/ StorageFails
    \/ StorageRecovers

Spec == Init /\ [][Next]_vars

\* The pattern_history table under store_patterns.
InitPatternStore ==
    /\ InitStore /\ InitPatterns /\ IdleSynth
    /\ IdleAlerts /\ IdleTrend /\ InitPredictions
    /\ IdleLibrary

NextPatternStore ==
    \/ \E pattern_report \in ReportSamples : StorePatterns(pattern_report)
    \/ StorageFails
    \/ StorageRecovers

SpecPatterns == InitPatternStore /\ [][NextPatternStore]_vars

\* One generate_alerts call on every input.
InitAlertSystem ==
    /\ InitAlerts
    /\ InitStore /\ InitPatterns /\ IdleSynth /\ IdleTrend /\ InitPredictions
    /\ IdleLibrary

NextAlertSystem == GenerateAlerts

SpecAlerts == InitAlertSystem /\ [][NextAlertSystem]_vars

\* One detect_anomalies call on every input.
InitTrendAnalyzer ==
    /\ InitTrend
    /\ InitStore /\ InitPatterns /\ IdleSynth /\ IdleAlerts /\ InitPredictions
    /\ IdleLibrary

NextTrendAnalyzer == DetectAnomalies

SpecTrend == InitTrendAnalyzer /\ [][NextTrendAnalyzer]_vars

\* The prediction store over time.
ClockSteps == {1, RetentionSpan - 1}

InitPredictionStore ==
    /\ InitPredictions
    /\ InitStore /\ InitPatterns /\ IdleSynth /\ IdleAlerts /\ IdleTrend
    /\ IdleLibrary

NextPredictionStore ==
    \/ \E sid \in SuggestionIds : SavePrediction(sid)
    \/ \E sids \in SeqsUpTo(SuggestionIds, MaxBatch) : SavePredictionsBatch(sids)
    \/ \E sid \in SuggestionIds, action \in UserActions \cup {NoAction} :
            RecordFeedback(sid, action)
    \/ CleanupOldPredictions
    \/ \E d \in ClockSteps : Tick(d)

SpecPredictions == InitPredictionStore /\ [][NextPredictionStore]_vars

\* One call of the pattern analyzer on every events database.
InitPatternAnalyzer ==
    InitAnalyzer /\ IdleRuntime /\ IdleReports /\ IdleCore /\ IdlePredictor /\ IdleRecommender /\ IdleHelpers

NextPatternAnalyzer ==
    \/ AnalyzeCommandSequences
    \/ AnalyzeAllPatterns

SpecAnalyzer == InitPatternAnalyzer /\ [][NextPatternAnalyzer]_vars

\* One call of the predictor on every database and context.
InitPatternPredictor ==
    InitPredictor /\ IdleRuntime /\ IdleReports /\ IdleCore /\ IdleAnalyzer /\ IdleRecommender /\ IdleHelpers

NextPatternPredictor ==
    \/ PredictNextActions
    \/ PredictNextCommand
    \/ SuggestRelatedFiles
    \/ SuggestWorkflowCompletion
    \/ \E activity_type \in ActivityTypes : SuggestOptimalTiming(activity_type)

SpecPredictor == InitPatternPredictor /\ [][NextPatternPredictor]_vars

\* One correlate_patterns_to_goals call on every report and configuration.
InitGoalRecommender ==
    InitRecommender /\ IdleRuntime /\ IdleReports /\ IdleCore /\ IdleAnalyzer /\ IdlePredictor /\ IdleHelpers

NextGoalRecommender == CorrelatePatternsToGoals

SpecRecommender == InitGoalRecommender /\ [][NextGoalRecommender]_vars

\* One calculate_jaccard_similarity call on every pair of sets.
InitHelpers ==
    InitJaccard /\ IdleRuntime /\ IdleReports /\ IdleCore /\ IdleAnalyzer /\ IdlePredictor /\ IdleRecommender

NextHelpers == CalculateJaccardSimilarity

SpecJaccard == InitHelpers /\ [][NextHelpers]_vars

\* One round trip through the dictionary for every sample report.
InitReportTypes ==
    InitReports /\ IdleRuntime /\ IdleCore /\ IdleAnalyzer /\ IdlePredictor /\ IdleRecommender
        /\ IdleHelpers

NextReportTypes == RoundTrip

SpecReports == InitReportTypes /\ [][NextReportTypes]_vars

\* Two sessions edit files, each under its own observer, and the analyzer
\* reads what they recorded.
InitFileClusters ==
    InitClusters /\ IdleAlertStore /\ IdleStoreTasks /\ IdleManager /\ IdleReports /\ IdleCore /\ IdleAnalyzer /\ IdlePredictor
        /\ IdleRecommender /\ IdleHelpers

NextFileClusters ==
    \/ \E session_id \in ObserverSessions, file_path \in EditedFiles :
            CaptureFileEdit(session_id, file_path)
    \/ \E session_id \in ObserverSessions : ResetCluster(session_id)
    \/ WallClockTick
    \/ AnalyzeFileRelationships

SpecClusters == InitFileClusters /\ [][NextFileClusters]_vars

\* The executive alerts of an initialized pattern store.
InitExecutiveAlerts ==
    InitAlertStore /\ IdleClusters /\ IdleStoreTasks /\ IdleManager /\ IdleReports /\ IdleCore /\ IdleAnalyzer
        /\ IdlePredictor /\ IdleRecommender /\ IdleHelpers

NextExecutiveAlerts ==
    \/ \E alert \in ExecutiveAlertInputs : StoreExecutiveAlert(alert)
    \/ \E severity \in {None, Some("CRITICAL"), Some("WARNING")},
          limit \in {1, ACTIVE_ALERTS_LIMIT_DEFAULT} :
            GetActiveAlerts(severity, limit)

SpecAlertStore == InitExecutiveAlerts /\ [][NextExecutiveAlerts]_vars

\* Two tasks call store_patterns of one pattern store at the same time.
InitConcurrentStore ==
    InitStoreTasks /\ IdleClusters /\ IdleAlertStore /\ IdleManager /\ IdleReports /\ IdleCore
        /\ IdleAnalyzer /\ IdlePredictor /\ IdleRecommender /\ IdleHelpers

NextConcurrentStore ==
    \E task \in StoreTasks :
        \/ StoreInitialize(task)
        \/ CreateDatabaseFile(task)
        \/ CreatePatternTables(task)
        \/ CreateExecutiveTables(task)
        \/ EnsureExecutiveTables(task)
        \/ UpdatePattern(task)
        \/ InsertPattern(task)
        \/ CommitPatterns(task)
        \/ BusyTimeout(task)

SpecConcurrentStore == InitConcurrentStore /\ [][NextConcurrentStore]_vars

\* Two tasks initialize the observer manager and ask it for observers.
InitObserverManager ==
    InitManager /\ IdleClusters /\ IdleAlertStore /\ IdleStoreTasks /\ IdleReports
        /\ IdleCore /\ IdleAnalyzer /\ IdlePredictor /\ IdleRecommender /\ IdleHelpers

NextObserverManager ==
    \E task \in ManagerTasks :
        \/ ManagerInitialize(task)
        \/ InitDatabase(task)
        \/ \E observer_name \in ObserverNames : GetObserver(task, observer_name)

SpecManager == InitObserverManager /\ [][NextObserverManager]_vars

(***************************************************************************)
(* Properties of AlertSystem.generate_alerts (SpecAlerts)                  *)
(***************************************************************************)

\* The alerts of a list that are missing from another list.
Discarded(generated, returned) ==
    {a \in Range(generated) : \A r \in Range(returned) : r.obj # a.obj}

\* A list is in severity order, alerts of equal severity in the order they
\* were generated.
SeverityOrdered(alerts) ==
    \A i, j \in 1..Len(alerts) :
        i < j =>
            \/ severity_order(alerts[i].severity) < severity_order(alerts[j].severity)
            \/ /\ severity_order(alerts[i].severity) = severity_order(alerts[j].severity)
               /\ alerts[i].obj < alerts[j].obj

\* C3: when more alerts are generated than max_active_alerts, generate_alerts
\* returns exactly max_active_alerts of the generated alerts, each at most
\* once, and no discarded alert is more severe than a returned one.
C3_CapKeepsMostSevere ==
    (alerts_pc # "idle" /\ Len(generated_alerts) > alert_system.max_active_alerts)
    => /\ alerts_pc = "returned"
       /\ Len(returned_alerts) = alert_system.max_active_alerts
       /\ Range(returned_alerts) \subseteq Range(generated_alerts)
       /\ \A i, j \in 1..Len(returned_alerts) :
              i # j => returned_alerts[i].obj # returned_alerts[j].obj
       /\ \A d \in Discarded(generated_alerts, returned_alerts) :
              \A r \in Range(returned_alerts) :
                  severity_order(d.severity) >= severity_order(r.severity)

\* C4 as stated: the returned list is in severity order, ties in generation
\* order, for every input.
C4_AlwaysSeverityOrdered ==
    alerts_pc = "returned" => SeverityOrdered(returned_alerts)

\* C4 amended: the returned list is in severity order, ties in generation
\* order, when more alerts were generated than max_active_alerts; otherwise
\* it is the generated list, in generation order.
C4_OrderedWhenCapped ==
    alerts_pc = "returned"
    => IF Len(generated_alerts) > alert_system.max_active_alerts
       THEN SeverityOrdered(returned_alerts)
       ELSE returned_alerts = generated_alerts

\* C4 witness: the cap was exceeded by a list that was not in severity
\* order, and the two alerts returned changed places.
C4_Witness ==
    /\ alerts_pc = "returned"
    /\ Len(generated_alerts) > alert_system.max_active_alerts
    /\ ~SeverityOrdered(generated_alerts)
    /\ \E i, j \in 1..Len(returned_alerts) :
           i < j /\ returned_alerts[i].obj > returned_alerts[j].obj

\* The productivity alerts of a list raised for a change of c percent.
ProductivityAlerts(alerts, c) ==
    {a \in Range(alerts) : a.category = "productivity" /\ a.evidence = c}

\* C10: for every drop of the productivity score handed to generate_alerts,
\* a CRITICAL productivity alert is generated when the drop is at least 40%,
\* a WARNING one when it is at least 20% and below 40%, and none when it is
\* below 20%; the call returns, with the alert in the returned list whenever
\* the cap discards nothing, and every productivity alert stems from such a
\* drop.
C10_ProductivityDropSeverity ==
    alerts_pc # "idle"
    => /\ \A m \in Range(alert_input.trend_metrics) :
              (m.metric_name = "productivity_score" /\ m.change_percent < 0)
              => LET drop == -m.change_percent
                     raised == ProductivityAlerts(generated_alerts, m.change_percent)
                 IN /\ drop >= 40 =>
                           raised # {} /\ \A a \in raised : a.severity = "critical"
                    /\ (drop >= 20 /\ drop < 40) =>
                           raised # {} /\ \A a \in raised : a.severity = "warning"
                    /\ drop < 20 => raised = {}
                    /\ (/\ drop >= 20
                        /\ Len(generated_alerts) <= alert_system.max_active_alerts)
                       => /\ alerts_pc = "returned"
                          /\ ProductivityAlerts(returned_alerts, m.change_percent) = raised
       /\ \A a \in Range(generated_alerts) :
              a.category = "productivity" =>
                  \E m \in Range(alert_input.trend_metrics) :
                      /\ m.metric_name = "productivity_score"
                      /\ m.change_percent = a.evidence
                      /\ a.evidence <= -20

\* C11: the configured productivity_drop_threshold (the default when the key
\* is absent) decides which productivity drops raise an alert: a call that
\* returns has generated a productivity alert for every drop above the
\* threshold and none for a drop below it.
C11_ConfiguredThresholdDecides ==
    alerts_pc = "returned"
    => \A m \in Range(alert_input.trend_metrics) :
           (m.metric_name = "productivity_score" /\ m.change_percent < 0)
           => LET raised == ProductivityAlerts(generated_alerts, m.change_percent) IN
              /\ -m.change_percent > alert_system.productivity_threshold => raised # {}
              /\ -m.change_percent < alert_system.productivity_threshold => raised = {}

\* The alignment alerts of a list raised for a change of c percent.
AlignmentAlerts(alerts, c) ==
    {a \in Range(alerts) : a.category = "alignment" /\ a.evidence = c}

\* C12: for every drop of the strategic alignment beyond the alignment
\* threshold, a call that returns has generated an alignment alert, of
\* severity CRITICAL when the drop is at least 20 percentage points above the
\* threshold and of severity WARNING otherwise.
C12_AlignmentEscalatesAboveThreshold ==
    alerts_pc = "returned"
    => \A m \in Range(alert_input.trend_metrics) :
           (/\ m.metric_name = "strategic_alignment"
            /\ -m.change_percent > alert_system.alignment_threshold)
           => LET raised == AlignmentAlerts(generated_alerts, m.change_percent) IN
              /\ raised # {}
              /\ \A a \in raised :
                     a.severity =
                        IF -m.change_percent >= alert_system.alignment_threshold + 20
                        THEN "critical" ELSE "warning"

\* C13: when the alerts stay within the cap, generate_alerts returns, and for
\* every anomaly handed to it the returned list holds exactly one anomaly
\* alert, whose severity is the severity of the anomaly.
C13_AnomaliesMapOneToOne ==
    (/\ alerts_pc # "idle"
     /\ Len(generated_alerts) + Len(alert_input.anomalies)
            <= alert_system.max_active_alerts)
    => /\ alerts_pc = "returned"
       /\ \A i \in 1..Len(alert_input.anomalies) :
              LET shown == SelectSeq(returned_alerts,
                      LAMBDA a : /\ a.category = "anomaly"
                                 /\ a.evidence = alert_input.anomalies[i].z_score)
              IN /\ Len(shown) = 1
                 /\ shown[1].severity = alert_input.anomalies[i].severity

\* C14: any two alerts of the list a generate_alerts call returns have
\* different alert ids.
C14_AlertIdsUnique ==
    alerts_pc = "returned"
    => \A i, j \in 1..Len(returned_alerts) :
           i # j => returned_alerts[i].alert_id # returned_alerts[j].alert_id

(***************************************************************************)
(* Properties of TrendAnalyzer.detect_anomalies (SpecTrend)                *)
(***************************************************************************)

\* C9: when a metric has the constant value 10 in a history of four
\* snapshots and the current value 100, detect_anomalies reports an anomaly
\* of severity critical for that metric.
C9_ConstantHistoryIsCritical ==
    trend_pc = "returned"
    => \A i \in 1..Len(MetricsToCheck) :
           (/\ Len(previous_snapshots) = 4
            /\ historical_values(previous_snapshots, MetricsToCheck[i]) = <<10, 10, 10, 10>>
            /\ metric_value(current_snapshot, MetricsToCheck[i]) = 100)
           => \E a \in Range(anomalies) :
                  a.metric_name = MetricsToCheck[i] /\ a.severity = "critical"

(***************************************************************************)
(* Properties of PredictionStore.cleanup_old_predictions (SpecPredictions) *)
(***************************************************************************)

\* The age of a prediction, in day parts.
Age(row) == now - row.created_at

\* C7: every cleanup_old_predictions call with the default retention leaves
\* no prediction that has no user action and is older than 30 days, whether
\* or not feedback rows reference it, and keeps every prediction that has a
\* user action or is younger than 30 days.
C7_CleanupRemovesOldKeepsRest ==
    [][CleanupOldPredictions
       => /\ \A i \in 1..Len(prediction_history') :
                 ~(/\ prediction_history'[i].user_action = NoAction
                   /\ Age(prediction_history'[i]) > RetentionSpan)
          /\ \A i \in 1..Len(prediction_history) :
                 (\/ prediction_history[i].user_action # NoAction
                  \/ Age(prediction_history[i]) < RetentionSpan)
                 => prediction_history[i] \in Range(prediction_history')]_vars

(***************************************************************************)
(* Properties of PatternStore.store_patterns (SpecPatterns)                *)
(***************************************************************************)

\* C5 as stated: no pattern key ever has a second row, and every successful
\* store_patterns call for a pattern adds exactly 1 to the occurrence_count
\* of its key (the first call sets it to 1).
C5_OneRowOnePerCall ==
    [][\A r \in ReportSamples :
          (StorePatterns(r) /\ store_call'.result = "True")
          => \A k \in SampleKeys :
                 /\ Cardinality(RowsOfKey(pattern_history', k)) <= 1
                 /\ CountOfKey(pattern_history', k) =
                        CountOfKey(pattern_history, k)
                        + (IF Multiplicity(r, k) > 0 THEN 1 ELSE 0)]_vars

\* C5 amended: no pattern key ever has a second row; a successful
\* store_patterns call adds to the occurrence_count of a key the number of
\* patterns of the report that carry the key, and a call that fails leaves
\* every count as it was.
C5_OneRowCountsUpserts ==
    [][\A r \in ReportSamples :
          StorePatterns(r)
          => \A k \in SampleKeys :
                 /\ Cardinality(RowsOfKey(pattern_history', k)) <= 1
                 /\ CountOfKey(pattern_history', k) =
                        CountOfKey(pattern_history, k)
                        + (IF store_call'.result = "True"
                           THEN Multiplicity(r, k) ELSE 0)]_vars

\* C5 witness: after repeated successful calls two keys are stored, each in
\* one row, with different counts, both above 1.
C5_Witness ==
    /\ store_call = StoreCall("store_patterns", "True", 0)
    /\ \E k1, k2 \in SampleKeys :
           /\ Cardinality(RowsOfKey(pattern_history, k1)) = 1
           /\ Cardinality(RowsOfKey(pattern_history, k2)) = 1
           /\ CountOfKey(pattern_history, k1) = 2
           /\ CountOfKey(pattern_history, k2) = 3

(***************************************************************************)
(* Properties of PatternStore.store_weekly_snapshot (Spec)                 *)
(***************************************************************************)

\* The rows of weekly_snapshots for the period of a snapshot.
RowsOfPeriod(rows, snapshot) == SelectSeq(rows, LAMBDA r : SamePeriod(r, snapshot))

\* The rows of weekly_snapshots for the other periods.
RowsOfOtherPeriods(rows, snapshot) == SelectSeq(rows, LAMBDA r : ~SamePeriod(r, snapshot))

\* C6 as stated: a store_weekly_snapshot call for a period that is already
\* stored leaves the stored values of the period unchanged, in one row.
C6_ImmutableOnceStored ==
    [][\A snapshot \in WeeklySnapshotInputs :
          (StoreWeeklySnapshot(snapshot) /\ RowsOfPeriod(weekly_snapshots, snapshot) # <<>>)
          => RowsOfPeriod(weekly_snapshots', snapshot)
                 = RowsOfPeriod(weekly_snapshots, snapshot)]_vars

\* C6 amended: after a successful store_weekly_snapshot call the period has
\* exactly one row and it holds the values of the snapshot just stored,
\* replacing those stored before; the rows of the other periods, and every
\* row when the call fails, are unchanged.
C6_OneRowLastStoreWins ==
    [][\A snapshot \in WeeklySnapshotInputs :
          StoreWeeklySnapshot(snapshot)
          => IF store_call'.result = "True"
             THEN /\ RowsOfPeriod(weekly_snapshots', snapshot) = <<snapshot>>
                  /\ RowsOfOtherPeriods(weekly_snapshots', snapshot)
                         = RowsOfOtherPeriods(weekly_snapshots, snapshot)
             ELSE weekly_snapshots' = weekly_snapshots]_vars

\* C6 witness: a snapshot was stored for a period that already had a row,
\* and the period has one row.
C6_Witness ==
    /\ store_call = StoreCall("store_weekly_snapshot", "True", 1)
    /\ \E snapshot \in WeeklySnapshotInputs :
           /\ weekly_snapshots[Len(weekly_snapshots)] = snapshot
           /\ Len(RowsOfPeriod(weekly_snapshots, snapshot)) = 1
           /\ Len(weekly_snapshots) = 2

(***************************************************************************)
(* Properties of ExecutiveSynthesizer.generate_executive_report (Spec)     *)
(***************************************************************************)

\* C1: generate_executive_report never lets an exception reach its caller:
\* whatever the state of the store, a call on an enabled synthesizer ends by
\* returning a report.
C1_NeverPropagatesException ==
    (enabled /\ synth.outcome # "none") => synth.outcome = "report"

\* C2: when some of the three analyses raise, the others still run to
\* completion, and the call returns a report in which the results of the
\* failed analyses are empty lists.
C2_FailingTaskIsIsolated ==
    (enabled /\ synth.outcome # "none" /\ failing_tasks # {})
    => /\ synth.outcome = "report"
       /\ synth.completed = Tasks \ failing_tasks
       /\ "trends" \in failing_tasks => synth.trend_metrics = <<>>
       /\ "anomalies" \in failing_tasks => synth.anomalies = <<>>
       /\ "goals" \in failing_tasks => synth.goal_correlations = <<>>

\* C8: once a generate_executive_report call of an enabled synthesizer has
\* ended for a week, the weekly snapshot of that week is stored, and
\* get_recent_snapshots returns it.
C8_RunStoresItsSnapshot ==
    (enabled /\ synth.outcome # "none" /\ storage = "ok")
    => \E row \in Range(get_recent_snapshots(weekly_snapshots, storage, SYNTH_WEEKS_BACK)) :
           row.period_start = Monday(synth.week)

\* C29: a save_prediction or save_predictions_batch call leaves the
\* user_action of every suggestion that was stored before it as it was.
C29_SaveKeepsUserAction ==
    [][pred_call'.op \in {"save_prediction", "save_predictions_batch"}
       => \A i \in 1..Len(prediction_history) :
              \E j \in 1..Len(prediction_history') :
                  /\ prediction_history'[j].suggestion_id
                         = prediction_history[i].suggestion_id
                  /\ prediction_history'[j].user_action
                         = prediction_history[i].user_action]_vars

(***************************************************************************)
(* Properties of PatternAnalyzer (SpecAnalyzer)                            *)
(***************************************************************************)

\* The commands of one session of the command query's result, in row order.
CommandsOfSession(rows, id) ==
    LET own == SelectSeq(rows, LAMBDA r : r.session_id = id)
    IN [i \in 1..Len(own) |-> own[i].command_name]

\* The number of places at which a window occurs in a command list.
Occurrences(window, commands) ==
    Cardinality({i \in 1..(Len(commands) - Len(window) + 1) :
                    SubSeq(commands, i, i + Len(window) - 1) = window})

\* The occurrences of a window within the sessions `ids`, summed.
RECURSIVE WindowCount(_, _, _)
WindowCount(window, rows, ids) ==
    IF ids = {} THEN 0
    ELSE LET id == CHOOSE x \in ids : TRUE
         IN Occurrences(window, CommandsOfSession(rows, id))
            + WindowCount(window, rows, ids \ {id})

\* The sessions of the command query's result.
SessionsOf(rows) == {rows[i].session_id : i \in 1..Len(rows)} \ {""}

\* The history of the specification's example: one session with the
\* commands a, b, c, a, b, c.
ExampleHistory == SessionRows("s1", <<"a", "b", "c", "a", "b", "c">>)

\* C15: when the command query succeeds, analyze_command_sequences returns
\* exactly the windows of command_sequence_length consecutive commands of a
\* session whose occurrences within the sessions number at least
\* command_min_occurrences, each once, with that number as occurrence_count
\* and min(1, count/10) as confidence, in descending order of count; for one
\* session a, b, c, a, b, c with length 3 and minimum 2 the result is the one
\* sequence a, b, c with occurrence_count 2.
C15_SequencesAreFrequentWindows ==
    (analysis_pc = "sequences" /\ "command_sequences" \notin failing_queries)
    => LET rows == events_db.command_usage
           n == analyzer.command_sequence_length
           names == {rows[i].command_name : i \in 1..Len(rows)}
           count(w) == WindowCount(w, rows, SessionsOf(rows))
       IN /\ \A i \in 1..Len(sequences_found) :
                 /\ Len(sequences_found[i].sequence) = n
                 /\ sequences_found[i].occurrence_count = count(sequences_found[i].sequence)
                 /\ sequences_found[i].occurrence_count >= analyzer.command_min_occurrences
                 /\ sequences_found[i].confidence =
                        (IF sequences_found[i].occurrence_count >= 10 THEN 10
                         ELSE sequences_found[i].occurrence_count)
          /\ \A i, j \in 1..Len(sequences_found) :
                 i < j => /\ sequences_found[i].sequence # sequences_found[j].sequence
                          /\ sequences_found[i].occurrence_count
                                 >= sequences_found[j].occurrence_count
          /\ \A w \in [1..n -> names] :
                 count(w) >= analyzer.command_min_occurrences
                 => \E i \in 1..Len(sequences_found) : sequences_found[i].sequence = w
          /\ (/\ rows = ExampleHistory
              /\ n = 3
              /\ analyzer.command_min_occurrences = 2)
             => sequences_found =
                    <<[sequence |-> <<"a", "b", "c">>, occurrence_count |-> 2,
                       confidence |-> 2]>>

\* C15 witness: two sessions were analyzed; two windows were returned, the
\* one seen first in second place because its count is lower, and an
\* occurrence of a returned window that spans the boundary of the sessions
\* was not counted.
C15_Witness ==
    /\ analysis_pc = "sequences"
    /\ "command_sequences" \notin failing_queries
    /\ Cardinality(SessionsOf(events_db.command_usage)) = 2
    /\ Len(sequences_found) = 2
    /\ sequences_found[1].occurrence_count > sequences_found[2].occurrence_count
    /\ LET first == sequence_counter(events_db.command_usage,
                                     analyzer.command_sequence_length)
       IN first[1].key = sequences_found[2].sequence
    /\ \E i \in 1..Len(sequences_found) :
           Occurrences(sequences_found[i].sequence,
                       Flatten(session_sequences_ungrouped(events_db.command_usage)))
               > sequences_found[i].occurrence_count

\* C16: in the report of analyze_all_patterns the category of every analysis
\* that failed is empty (None for the time patterns), and the category of
\* every other analysis holds the result the analysis computes from the
\* events database, whichever other analyses failed.
C16_AnalysesDegradeIndependently ==
    analysis_pc = "report"
    => /\ analysis_report.command_sequences =
              (IF "command_sequences" \in failing_queries THEN <<>>
               ELSE command_sequences_of(events_db.command_usage, analyzer))
       /\ analysis_report.file_clusters =
              (IF "file_relationships" \in failing_queries THEN <<>>
               ELSE file_clusters_of(events_db.file_clusters, analyzer))
       /\ analysis_report.time_patterns =
              (IF "time_patterns" \in failing_queries THEN <<>>
               ELSE time_patterns_of(events_db.time_patterns, analyzer))
       /\ analysis_report.success_correlations =
              (IF "success_correlations" \in failing_queries THEN <<>>
               ELSE success_correlations_of(events_db.success, analyzer))

\* C16 witness: the file analysis failed on a database from which it would
\* have found a cluster, and the report holds the command sequences, the
\* time patterns and the success correlations.
C16_Witness ==
    /\ analysis_pc = "report"
    /\ failing_queries = {"file_relationships"}
    /\ file_clusters_of(events_db.file_clusters, analyzer) # <<>>
    /\ analysis_report.file_clusters = <<>>
    /\ analysis_report.command_sequences # <<>>
    /\ analysis_report.time_patterns # <<>>
    /\ analysis_report.success_correlations # <<>>

\* C22: the confidence of the report analyze_all_patterns returns is
\* min(1, pattern_count / 10), with pattern_count the count the report
\* derives from its own content.
C22_ConfidenceFollowsPatternCount ==
    analysis_pc = "report"
    => analysis_report.confidence
           = tenths_of(pattern_count(analysis_report), FULL_CONFIDENCE_COUNT)

(***************************************************************************)
(* Properties of PatternPredictor.predict_next_actions (SpecPredictor)     *)
(***************************************************************************)

\* C17: the list predict_next_actions returns holds no two suggestions with
\* the same command and files, only suggestions whose confidence is at
\* least min_confidence, and at most max_suggestions suggestions.
C17_UniqueConfidentAndLimited ==
    predictor_pc = "returned"
    => /\ \A i, j \in 1..Len(predicted) :
              i # j => <<predicted[i].command, predicted[i].files>>
                           # <<predicted[j].command, predicted[j].files>>
       /\ \A i \in 1..Len(predicted) :
              FracAtLeast(predicted[i].confidence, predict_args.min_confidence)
       /\ Len(predicted) <= predict_args.max_suggestions

\* C17 witness: two strategies suggested the same command, a suggestion fell
\* below min_confidence, more suggestions were left than max_suggestions,
\* and the call returned max_suggestions of them.
C17_Witness ==
    /\ predictor_pc = "returned"
    /\ \E merged \in {merged_suggestions(predictor_db, prediction_context, current_hour)} :
          /\ \E i, j \in 1..Len(merged) :
                 /\ i < j
                 /\ merged[i].command = merged[j].command
                 /\ merged[i].files = merged[j].files
                 /\ merged[i].suggestion_type # merged[j].suggestion_type
          /\ \E i \in 1..Len(merged) :
                 FracLess(merged[i].confidence, predict_args.min_confidence)
          /\ Len(unique_suggestions(merged, predict_args.min_confidence))
                 > predict_args.max_suggestions
    /\ Len(predicted) = predict_args.max_suggestions
    /\ Len(predicted) = 2

\* The transitions of the stored sequences that have the recent commands as
\* their first commands.
PrefixTransitions(rows, recent) ==
    Flatten([k \in 1..Len(rows) |->
        IF /\ Len(rows[k].commands) > Len(recent)
           /\ SubSeq(rows[k].commands, 1, Len(recent)) = recent
        THEN <<[next_cmd |-> rows[k].commands[Len(recent) + 1],
                score |-> rows[k].frequency * (1 + rows[k].recency_bonus),
                frequency |-> rows[k].frequency]>>
        ELSE <<>>])

\* C23: the suggestions of _predict_next_command are the ones made from the
\* stored sequences that have the last three recent commands as their first
\* commands; a sequence that holds them at a later place adds no score.
C23_OnlyPrefixSequencesContribute ==
    (predictor_pc = "next_command" /\ predictor_db.available
        /\ prediction_context.recent_commands # <<>>)
    => predicted = command_suggestions_of(
           PrefixTransitions(predictor_db.command_sequences,
               Suffix(prediction_context.recent_commands, RECENT_COMMANDS_USED)))

\* No timing history is to be had for an activity type: the database fails
\* or holds no row of the type with a total.
NoTimingHistory(db, activity_type) ==
    \/ ~db.available
    \/ \A i \in 1..Len(db.time_patterns) :
           db.time_patterns[i].activity_type = activity_type
               => db.time_patterns[i].total_count = 0

\* C24: whenever no timing history is to be had for the activity type,
\* suggest_optimal_timing returns the hours 9, 10, 11, 14, 15 with the
\* score 0.7.
C24_DefaultWithoutHistory ==
    (predictor_pc = "timing"
        /\ NoTimingHistory(predictor_db, predicted[1].activity_type))
    => /\ predicted[1].optimal_hours = <<9, 10, 11, 14, 15>>
       /\ predicted[1].current_score = Frac(7, 10)

\* C24 as the code has it: when the query succeeds and finds no row of the
\* activity type with a total, suggest_optimal_timing returns the hours 9,
\* 10, 11, 14, 15 with the score 0.7; when the database fails, it returns
\* the hours 9, 10, 11 with the score 0.6.
C24_DefaultWithoutHistoryFallbackOnFailure ==
    (predictor_pc = "timing"
        /\ NoTimingHistory(predictor_db, predicted[1].activity_type))
    => IF predictor_db.available
       THEN /\ predicted[1].optimal_hours = <<9, 10, 11, 14, 15>>
            /\ predicted[1].current_score = Frac(7, 10)
       ELSE /\ predicted[1].optimal_hours = <<9, 10, 11>>
            /\ predicted[1].current_score = Frac(6, 10)

\* C24 witness: the table holds rows of another activity type only, the
\* query succeeds, and the default is returned.
C24_Witness ==
    /\ predictor_pc = "timing"
    /\ predictor_db.available
    /\ predictor_db.time_patterns # <<>>
    /\ predicted[1].activity_type = "deep_work"
    /\ predicted[1].optimal_hours = <<9, 10, 11, 14, 15>>
    /\ predicted[1].current_score = Frac(7, 10)

\* C25: every file _suggest_related_files suggests is in none of the active
\* file clusters of the context.
C25_SuggestedFilesAreOutsideActiveClusters ==
    predictor_pc = "related_files"
    => \A i \in 1..Len(predicted) :
           \A k \in 1..Len(prediction_context.active_file_clusters) :
               Range(predicted[i].files)
                   \cap Range(prediction_context.active_file_clusters[k]) = {}

\* C27: the completed steps of a workflow prediction followed by its
\* predicted steps are the commands of the stored pattern it names.
C27_CompletedAndPredictedMakeThePattern ==
    (predictor_pc = "workflow" /\ predicted # <<>>)
    => \E i \in 1..Len(predictor_db.workflow_patterns) :
           /\ predictor_db.workflow_patterns[i].pattern_name = predicted[1].workflow_name
           /\ predicted[1].completed_steps \o predicted[1].predicted_steps
                  = predictor_db.workflow_patterns[i].commands

(***************************************************************************)
(* Properties of GoalAwareRecommender (SpecRecommender)                    *)
(***************************************************************************)

\* The aligned patterns of the objective with the given position.
AlignedOf(i) ==
    aligned_patterns_of(okrs[i], report_file_paths(goal_pattern_report),
                        report_commands(goal_pattern_report))

\* C18: every goal correlation correlate_patterns_to_goals returns has an
\* alignment score from min_alignment_score to 1, the score is the sum of
\* the matching factors limited to 1, and an objective that scores below
\* min_alignment_score is not returned.
C18_AlignmentScoreClampedAndFiltered ==
    recommender_pc = "returned"
    => /\ \A k \in 1..Len(goal_correlations) :
              /\ goal_correlations[k].alignment_score >= recommender.min_alignment_score
              /\ goal_correlations[k].alignment_score <= FULL_ALIGNMENT_TENTHS
              /\ \E i \in 1..Len(okrs) :
                     /\ okrs[i].okr_id = goal_correlations[k].okr_id
                     /\ goal_correlations[k].alignment_score
                            = IF raw_score_of(AlignedOf(i)) > FULL_ALIGNMENT_TENTHS
                              THEN FULL_ALIGNMENT_TENTHS
                              ELSE raw_score_of(AlignedOf(i))
       /\ \A i \in 1..Len(okrs) :
              raw_score_of(AlignedOf(i)) < recommender.min_alignment_score
              => \A k \in 1..Len(goal_correlations) :
                     goal_correlations[k].okr_id # okrs[i].okr_id

\* C18 witness: one objective's factors add up to more than 1 and it is
\* returned with score 1, another objective matched something but stayed
\* below min_alignment_score and is not returned.
C18_Witness ==
    /\ recommender_pc = "returned"
    /\ \E i, j \in 1..Len(okrs) :
           /\ raw_score_of(AlignedOf(i)) > FULL_ALIGNMENT_TENTHS
           /\ \E k \in 1..Len(goal_correlations) :
                  /\ goal_correlations[k].okr_id = okrs[i].okr_id
                  /\ goal_correlations[k].alignment_score = FULL_ALIGNMENT_TENTHS
           /\ raw_score_of(AlignedOf(j)) > 0
           /\ raw_score_of(AlignedOf(j)) < recommender.min_alignment_score
           /\ \A k \in 1..Len(goal_correlations) :
                  goal_correlations[k].okr_id # okrs[j].okr_id

(***************************************************************************)
(* Properties of calculate_jaccard_similarity (SpecJaccard)                *)
(***************************************************************************)

\* The similarity lies in [0,1] and is the same for (B, A).
JaccardBoundedAndSymmetric ==
    /\ jaccard_similarity[1].num >= 0
    /\ jaccard_similarity[1].num <= jaccard_similarity[1].den
    /\ FracEqual(jaccard_similarity[1],
                 calculate_jaccard_similarity(jaccard_sets[2], jaccard_sets[1]))

\* The similarity is 0.0 when either set is empty.
JaccardZeroOnEmpty ==
    (jaccard_sets[1] = {} \/ jaccard_sets[2] = {}) => jaccard_similarity[1].num = 0

\* C19 as stated: the similarity lies in [0,1], is symmetric, is 1.0 exactly
\* when the two sets are equal, and is 0.0 when either set is empty.
C19_OneIffEqualSets ==
    jaccard_similarity # <<>>
    => /\ JaccardBoundedAndSymmetric
       /\ FracEqual(jaccard_similarity[1], Frac(1, 1)) <=> jaccard_sets[1] = jaccard_sets[2]
       /\ JaccardZeroOnEmpty

\* C19: the similarity lies in [0,1], is symmetric, is 1.0 exactly when the
\* two sets are equal and not empty, and is 0.0 when either set is empty,
\* two empty sets included.
C19_OneIffEqualNonEmptySets ==
    jaccard_similarity # <<>>
    => /\ JaccardBoundedAndSymmetric
       /\ FracEqual(jaccard_similarity[1], Frac(1, 1))
              <=> (jaccard_sets[1] = jaccard_sets[2] /\ jaccard_sets[1] # {})
       /\ JaccardZeroOnEmpty

\* C19 witness: the similarity of two empty sets was computed and is 0.0.
C19_Witness ==
    /\ jaccard_sets = <<{}, {}>>
    /\ jaccard_similarity = <<Frac(0, 1)>>

(***************************************************************************)
(* Properties of the report types (SpecReports)                            *)
(***************************************************************************)

\* C20: for every report type, to_dict followed by the deserialization of
\* its result returns a value equal to the original in all fields.
C20_RoundTripReproducesReport ==
    round_trip # <<>>
    => /\ round_trip[1].raised = ""
       /\ round_trip[1].value = <<report_value>>

(***************************************************************************)
(* Properties of FileClustersObserver (SpecClusters)                       *)
(***************************************************************************)
\* C21: a cluster_id is bounded by the session: no two edits recorded in
\* different sessions carry the same cluster_id, and every file cluster
\* analyze_file_relationships returns holds files that one session edited
\* under one cluster_id.
C21_ClusterIdIsSessionBounded ==
    /\ \A i, j \in 1..Len(file_cluster_events) :
            file_cluster_events[i].session_id # file_cluster_events[j].session_id
                => file_cluster_events[i].cluster_id # file_cluster_events[j].cluster_id
    /\ clusters_pc = "analyzed" =>
            \A k \in 1..Len(session_clusters) :
                \E session_id \in ObserverSessions :
                    \E cluster_id \in {file_cluster_events[i].cluster_id :
                                          i \in 1..Len(file_cluster_events)} :
                        \A f \in 1..Len(session_clusters[k].files) :
                            \E i \in 1..Len(file_cluster_events) :
                                /\ file_cluster_events[i].session_id = session_id
                                /\ file_cluster_events[i].cluster_id = cluster_id
                                /\ file_cluster_events[i].file_path
                                       = session_clusters[k].files[f]

(***************************************************************************)
(* Properties of the executive alerts of PatternStore (SpecAlertStore)     *)
(***************************************************************************)
\* C26: after a get_active_alerts call without severity filter and with the
\* default limit, every unacknowledged alert stored is in the list returned,
\* with its alert_id, severity and category; the list is empty only when no
\* unacknowledged alert is stored.
C26_ActiveAlertsAreReturned ==
    (/\ alert_store_call.op = "get_active_alerts"
     /\ alert_store_call.severity = None
     /\ alert_store_call.limit = ACTIVE_ALERTS_LIMIT_DEFAULT)
    => /\ \A i \in 1..Len(executive_alerts) :
              ~executive_alerts[i].acknowledged
              => \E k \in 1..Len(active_alerts) :
                     /\ active_alerts[k].alert_id = executive_alerts[i].alert_id
                     /\ enum_value(AlertSeverityValues, active_alerts[k].severity)
                            = executive_alerts[i].severity
                     /\ enum_value(AlertCategoryValues, active_alerts[k].category)
                            = executive_alerts[i].category
       /\ active_alerts = <<>>
              => \A i \in 1..Len(executive_alerts) : executive_alerts[i].acknowledged

(***************************************************************************)
(* Properties of concurrent store_patterns calls (SpecConcurrentStore)     *)
(***************************************************************************)
\* C30: when two concurrent store_patterns calls for the same key, which
\* the store did not hold, have ended, both returned True and the store
\* holds one row of the key, with occurrence_count 2.
C30_ConcurrentStoresBothCount ==
    (\A task \in StoreTasks : /\ store_tasks[task].pc = "done"
                              /\ store_tasks[task].pattern_key = "a->b")
    => /\ \A task \in StoreTasks : store_tasks[task].result = "True"
       /\ Cardinality(RowsOfKey(store_db.pattern_history, "a->b")) = 1
       /\ CountOfKey(store_db.pattern_history, "a->b") = 2

(***************************************************************************)
(* Properties of ObserverManager (SpecManager)                             *)
(***************************************************************************)
\* C28: once the initialize call of a task has returned, the orchestrator
\* holds an observer for every enabled name, and a get_observer call of the
\* task for an enabled name returns that observer.
C28_InitializedMeansObserversCreated ==
    \A task \in ManagerTasks :
        /\ manager_tasks[task].pc \in {"initialized", "got"}
               => /\ manager_orchestrator # None
                  /\ enabled_observers \subseteq manager_orchestrator[1].observers
        /\ (manager_tasks[task].pc = "got"
               /\ manager_tasks[task].asked \in enabled_observers)
               => manager_tasks[task].got = Some(manager_tasks[task].asked)

====
